---- MODULE Spec2Model ----
(***************************************************************************)
(* The AMQP clients of packages/communicator, SkaniiAmqpProducer and       *)
(* SkaniiAmqpConsumer, and its HTTP application SkaniiHttpApp.  One client *)
(* instance is modelled; `role` says which of the two classes it is.  Every call in progress is a task whose pc is *)
(* the await it is suspended on; a step of the model is one run-to-        *)
(* completion turn of the JavaScript event loop (a synchronous prefix of   *)
(* a call, or the continuation of one settled promise together with the    *)
(* continuations it resolves in turn).                                      *)
(***************************************************************************)
EXTENDS Integers, FiniteSets, Sequences, TLC

MaxConns == 2       \* amqp.connect invocations in one behaviour
MaxTasks == 2       \* calls in progress at the same time
MaxAttempts == 2    \* largest configured reconnectAttempts
MaxTags == 1        \* consumer tags the broker hands out
MaxConsumerCalls == 1 \* calls the application has in progress on a consumer
MaxRegistryTags == 2 \* consumer tags handed out when no message is delivered

Tasks == 1..MaxTasks
Conns == 1..MaxConns
Queues == {"q1", "q2"}
OneQueue == {"q1"}  \* the queue of the specifications that use a single one

VARIABLES
    role,             \* "producer" | "consumer": the class of the client
    reconnectAttempts,\* config.reconnectAttempts
    durable,          \* config.durable
    supplied,         \* the config object passed to the constructor
    config,           \* this.config
    httpApp,          \* a SkaniiHttpApp instance
    connection,       \* this.connection (0 = null, else the connection object)
    channel,          \* this.channel (0 = null, else the channel object)
    isConnecting,     \* this.isConnecting
    reconnectCount,   \* this.reconnectCount
    activeConsumers,  \* this.activeConsumers: queue -> consumer tag (0 = no entry)
    insertedAt,       \* the insertion order of this.activeConsumers: queue -> the
                      \* tag its entry was created with (0 = no entry)
    timers,           \* pending setTimeout callbacks of scheduleReconnect
    connectCalls,     \* number of amqp.connect invocations so far
    listening,        \* connection objects carrying the client's error/close handlers
    errored,          \* connection objects that have emitted 'error'
    closed,           \* connection objects that have emitted 'close'
    shutChannels,     \* channel objects whose close() the client has completed
    shutConns,        \* connection objects whose close() the client has completed
    subs,             \* broker side: the subscriptions started by channel.consume
    nextTag,          \* number of consumer tags handed out
    tasks,            \* the calls in progress
    ret,              \* what the calls that settled in the last step settled with
    log,              \* the log lines written in the last step
    evSince,          \* error/close events handled since the last successful connect
    schedSince,       \* reconnects scheduled since the last successful connect
    exhausted         \* the terminal log was written and no caller has called since

vars == <<role, reconnectAttempts, durable, supplied, config, httpApp, connection, channel,
          isConnecting, reconnectCount,
          activeConsumers, insertedAt, timers, connectCalls, listening, errored, closed,
          shutChannels, shutConns, subs, nextTag, tasks, ret, log, evSince, schedSince,
          exhausted>>

clientVars == <<connection, channel, isConnecting, reconnectCount, activeConsumers,
                insertedAt, timers, listening, errored, closed>>

----------------------------------------------------------------------------
(* Tasks *)

\* op: the call; pc: the await it is suspended on; c: the connection/channel
\* object the awaited library call was made on (for a delivery: the channel
\* that delivered); q, noAck, keys: the arguments of consume; i: the binding
\* in flight; writes, full, bound, acks, script: what the call has done so far;
\* implicit: the call found no channel and awaited connect(); declared: the
\* durable option its assertQueue call was made with; tag: the consumer tag
\* of the cancel in flight; pos: the position of close()'s iterator over the
\* registry; cancels, closes: the cancel and close calls issued so far.
Idle == [op |-> "none", pc |-> "idle", c |-> 0, q |-> "", noAck |-> FALSE,
         keys |-> <<>>, i |-> 0, writes |-> 0, full |-> FALSE, bound |-> <<>>,
         script |-> "none", acks |-> <<>>, implicit |-> FALSE, declared |-> "none",
         tag |-> 0, pos |-> 0, cancels |-> <<>>, closes |-> <<>>]

\* What a settled call leaves behind for one step: v is "ok" or the error,
\* wch the channel its write was handed to, flag the second argument of a
\* public ack / nack / reject and calls the channel calls it forwarded.
NoRet == [op |-> "none", v |-> "none", writes |-> 0, full |-> FALSE,
          drained |-> FALSE, bound |-> <<>>, tag |-> 0, noAck |-> FALSE,
          script |-> "none", handler |-> "none", acks |-> <<>>, c |-> 0,
          waited |-> FALSE, q |-> "", keys |-> <<>>, implicit |-> FALSE,
          declared |-> "none", wch |-> 0, cancels |-> <<>>, closes |-> <<>>,
          calls |-> <<>>, flag |-> "none"]

\* The settled call tk, before its outcome is filled in.
Ret(tk) == [NoRet EXCEPT !.op = tk.op, !.q = tk.q, !.keys = tk.keys,
                         !.implicit = tk.implicit, !.declared = tk.declared,
                         !.cancels = tk.cancels, !.closes = tk.closes]

NoRets == [t \in Tasks |-> NoRet]

RunnerPcs == {"transport", "channel", "prefetch", "exchange"}

\* The slot a new call takes: the lowest free one.
FreeSlot(t) ==
    /\ tasks[t].pc = "idle"
    /\ \A u \in Tasks : u < t => tasks[u].pc # "idle"

Min(a, b) == IF a < b THEN a ELSE b

EmptyRegistry == [q \in Queues |-> 0]

\* isConnected(): both handles present.
isConnected == connection # 0 /\ channel # 0

\* The transport of connection object c (and of its channel) is gone: it has
\* emitted 'error' or 'close', or the client has closed it.
Dead(c) == c \in errored \cup closed \cup shutChannels \cup shutConns

\* What channel.publish / channel.sendToQueue may answer on the channel ch:
\* true, false (buffer full) or an exception; a channel whose transport is
\* gone only throws.
WriteResults(ch) == IF Dead(ch) THEN {"throw"} ELSE {"true", "false", "throw"}

----------------------------------------------------------------------------
\* Write, returning at once on a full buffer instead of awaiting 'drain'.
WriteNoWait(tk, ch, w) ==
    IF ch = 0 THEN
        [task |-> Idle, log |-> {"publish failed"},
         ret |-> [Ret(tk) EXCEPT !.v = "TypeError"]]
    ELSE IF w = "throw" THEN
        [task |-> Idle, log |-> {"publish failed"},
         ret |-> [Ret(tk) EXCEPT !.v = "write", !.writes = tk.writes + 1,
                                 !.wch = ch]]
    ELSE
        [task |-> Idle, log |-> {"published"},
         ret |-> [Ret(tk) EXCEPT !.v = "ok", !.writes = tk.writes + 1,
                                 !.full = (w = "false"), !.wch = ch]]

\* Write, making a second write attempt when the first one raises.
WriteRetry(tk, ch, w) ==
    IF ch = 0 THEN
        [task |-> Idle, log |-> {"publish failed"},
         ret |-> [Ret(tk) EXCEPT !.v = "TypeError"]]
    ELSE IF w = "true" THEN
        [task |-> Idle, log |-> {"published"},
         ret |-> [Ret(tk) EXCEPT !.v = "ok", !.writes = tk.writes + 1,
                                 !.wch = ch]]
    ELSE IF w = "false" THEN
        [task |-> [tk EXCEPT !.pc = "drain", !.c = ch, !.writes = tk.writes + 1,
                             !.full = TRUE],
         log |-> {"buffer full"}, ret |-> NoRet]
    ELSE
        [task |-> Idle, log |-> {"publish failed"},
         ret |-> [Ret(tk) EXCEPT !.v = "write", !.writes = tk.writes + 2,
                                 !.wch = ch]]

(* What a call does once it has a write to make: channel.publish /        *)
(* channel.sendToQueue inside the try block of publish / publishToQueue.  *)
(* w is what the broker library answers.  A null channel makes            *)
(* `this.channel!.publish` a TypeError.                                    *)
Write(tk, ch, w) ==
    IF ch = 0 THEN
        [task |-> Idle, log |-> {"publish failed"},
         ret |-> [Ret(tk) EXCEPT !.v = "TypeError"]]
    ELSE IF w = "true" THEN
        [task |-> Idle, log |-> {"published"},
         ret |-> [Ret(tk) EXCEPT !.v = "ok", !.writes = tk.writes + 1,
                                 !.wch = ch]]
    ELSE IF w = "false" THEN
        [task |-> [tk EXCEPT !.pc = "drain", !.c = ch, !.writes = tk.writes + 1,
                             !.full = TRUE],
         log |-> {"buffer full"}, ret |-> NoRet]
    ELSE
        [task |-> Idle, log |-> {"publish failed"},
         ret |-> [Ret(tk) EXCEPT !.v = "write", !.writes = tk.writes + 1,
                                 !.wch = ch]]

\* The call `this.channel!.assertQueue(queueName, {durable: config.durable,
\* ...})` of publishToQueue and consume.
AssertQueueCall(tk, ch) ==
    IF ch = 0 THEN
        [task |-> Idle,
         log |-> IF tk.op = "consume" THEN {"consume failed"} ELSE {},
         ret |-> [Ret(tk) EXCEPT !.v = "TypeError"]]
    ELSE
        [task |-> [tk EXCEPT !.pc = "assertQueue", !.c = ch,
                             !.declared = IF durable THEN "durable" ELSE "transient"],
         log |-> {}, ret |-> NoRet]

(* The continuation of `await this.connect()` in the caller tk: outcome is *)
(* "ok" or the error connect() rejected with, ch the value of this.channel *)
(* at that moment.                                                          *)
Settle(tk, outcome, ch, w) ==
    CASE tk.op = "connect" ->
            [task |-> Idle, log |-> {},
             ret |-> [NoRet EXCEPT !.op = "connect", !.v = outcome]]
      [] tk.op = "timer" ->
            [task |-> Idle, ret |-> NoRet,
             log |-> IF outcome = "ok" THEN {} ELSE {"reconnection attempt failed"}]
      [] tk.op = "publish" ->
            IF outcome = "ok" THEN Write(tk, ch, w)
            ELSE [task |-> Idle, log |-> {},
                  ret |-> [Ret(tk) EXCEPT !.v = outcome]]
      [] tk.op \in {"publishToQueue", "consume"} ->
            IF outcome = "ok" THEN AssertQueueCall(tk, ch)
            ELSE [task |-> Idle, log |-> {},
                  ret |-> [Ret(tk) EXCEPT !.v = outcome]]

\* The task t settles as s (a record of Write / AssertQueueCall / Settle).
Apply(t, s, baseLog) ==
    /\ tasks' = [tasks EXCEPT ![t] = s.task]
    /\ ret' = [NoRets EXCEPT ![t] = s.ret]
    /\ log' = baseLog \cup s.log

----------------------------------------------------------------------------
\* ConnectEntry without the isConnecting check.
ConnectEntryNoWait(t, tk, w) ==
    IF isConnected THEN
        /\ Apply(t, Settle(tk, "ok", channel, w), {"already connected"})
        /\ UNCHANGED <<isConnecting, connectCalls>>
    ELSE
        /\ connectCalls < MaxConns
        /\ isConnecting' = TRUE
        /\ connectCalls' = connectCalls + 1
        /\ tasks' = [tasks EXCEPT ![t] = [tk EXCEPT !.pc = "transport",
                                                     !.c = connectCalls + 1]]
        /\ ret' = NoRets
        /\ log' = {"connecting"}

\* ConnectEntry without the isConnected check.
ConnectEntryReopens(t, tk, w) ==
    IF isConnecting THEN
        /\ tasks' = [tasks EXCEPT ![t] = [tk EXCEPT !.pc = "waiting",
                                                     !.c = connectCalls]]
        /\ ret' = NoRets
        /\ log' = {"connection in progress"}
        /\ UNCHANGED <<isConnecting, connectCalls>>
    ELSE
        /\ connectCalls < MaxConns
        /\ isConnecting' = TRUE
        /\ connectCalls' = connectCalls + 1
        /\ tasks' = [tasks EXCEPT ![t] = [tk EXCEPT !.pc = "transport",
                                                     !.c = connectCalls + 1]]
        /\ ret' = NoRets
        /\ log' = {"connecting"}

(* connect(), up to its first await.                                       *)
ConnectEntry(t, tk, w) ==
    IF isConnecting THEN
        \* return this.waitForConnection(): the first check finds isConnecting
        /\ tasks' = [tasks EXCEPT ![t] = [tk EXCEPT !.pc = "waiting",
                                                     !.c = connectCalls]]
        /\ ret' = NoRets
        /\ log' = {"connection in progress"}
        /\ UNCHANGED <<isConnecting, connectCalls>>
    ELSE IF isConnected THEN
        /\ Apply(t, Settle(tk, "ok", channel, w), {"already connected"})
        /\ UNCHANGED <<isConnecting, connectCalls>>
    ELSE
        /\ connectCalls < MaxConns
        /\ isConnecting' = TRUE
        /\ connectCalls' = connectCalls + 1
        /\ tasks' = [tasks EXCEPT ![t] = [tk EXCEPT !.pc = "transport",
                                                     !.c = connectCalls + 1]]
        /\ ret' = NoRets
        /\ log' = {"connecting"}

\* The catch block of connect(): isConnecting = false, log, rethrow.
ConnectFail(t, err, w) ==
    /\ isConnecting' = FALSE
    /\ Apply(t, Settle(tasks[t], err, channel, w), {"failed to connect"})

\* What the broker library may answer to the write of the call tk settles with.
Answers(tk) == IF tk.op = "publish" THEN WriteResults(channel) ELSE {"true"}

\* connect() called by a user of the client.
Connect(t) ==
    /\ FreeSlot(t)
    /\ ConnectEntry(t, [Idle EXCEPT !.op = "connect"], "true")
    /\ exhausted' = FALSE
    /\ UNCHANGED <<role, reconnectAttempts, durable, shutChannels, shutConns, supplied,
                   config, httpApp, connection, channel, reconnectCount, activeConsumers,
                   insertedAt, timers, listening, errored, closed, subs, nextTag, evSince,
                   schedSince>>

\* The setTimeout callback of scheduleReconnect: this.connect().catch(log).
TimerFire(t) ==
    /\ timers > 0
    /\ FreeSlot(t)
    /\ timers' = timers - 1
    /\ ConnectEntry(t, [Idle EXCEPT !.op = "timer"], "true")
    /\ UNCHANGED <<role, reconnectAttempts, durable, shutChannels, shutConns, supplied,
                   config, httpApp, connection, channel, reconnectCount, activeConsumers,
                   insertedAt, listening, errored, closed, subs, nextTag, evSince,
                   schedSince, exhausted>>

\* amqp.connect resolves: this.connection = the new connection, then
\* this.connection.createChannel() is called.
TransportResolve(t) ==
    /\ tasks[t].pc = "transport"
    /\ connection' = tasks[t].c
    /\ tasks' = [tasks EXCEPT ![t].pc = "channel"]
    /\ ret' = NoRets
    /\ log' = {}
    /\ UNCHANGED <<role, reconnectAttempts, durable, shutChannels, shutConns, supplied,
                   config, httpApp, channel, isConnecting, reconnectCount, activeConsumers,
                   insertedAt, timers, connectCalls, listening, errored, closed, subs,
                   nextTag, evSince, schedSince, exhausted>>

\* StepReject, with a catch block that also schedules a reconnect.
StepRejectRetry(t) ==
    /\ tasks[t].pc \in RunnerPcs
    /\ \E w \in Answers(tasks[t]) : ConnectFail(t, tasks[t].pc, w)
    /\ reconnectCount' = reconnectCount + 1
    /\ timers' = timers + 1
    /\ UNCHANGED <<role, reconnectAttempts, durable, shutChannels, shutConns, supplied,
                   config, httpApp, connection, channel, activeConsumers, insertedAt,
                   connectCalls, listening, errored, closed, subs, nextTag, evSince,
                   schedSince, exhausted>>

\* amqp.connect, createChannel, prefetch or assertExchange rejects.
StepReject(t) ==
    /\ tasks[t].pc \in RunnerPcs
    /\ \E w \in Answers(tasks[t]) : ConnectFail(t, tasks[t].pc, w)
    /\ UNCHANGED <<role, reconnectAttempts, durable, shutChannels, shutConns, supplied,
                   config, httpApp, connection, channel, reconnectCount, activeConsumers,
                   insertedAt, timers, connectCalls, listening, errored, closed, subs,
                   nextTag, evSince, schedSince, exhausted>>

\* createChannel resolves: this.channel = the new channel; the consumer then
\* calls this.channel.prefetch, the producer this.channel.assertExchange.
ChannelResolve(t) ==
    /\ tasks[t].pc = "channel"
    /\ channel' = tasks[t].c
    /\ tasks' = [tasks EXCEPT ![t].pc =
                     IF role = "consumer" THEN "prefetch" ELSE "exchange"]
    /\ ret' = NoRets
    /\ log' = {}
    /\ UNCHANGED <<role, reconnectAttempts, durable, shutChannels, shutConns, supplied,
                   config, httpApp, connection, isConnecting, reconnectCount,
                   activeConsumers, insertedAt, timers, connectCalls, listening, errored,
                   closed, subs, nextTag, evSince, schedSince, exhausted>>

\* prefetch resolves (consumer): this.channel.assertExchange is called, on
\* whatever this.channel is by now; null makes it a TypeError.
PrefetchResolve(t) ==
    /\ tasks[t].pc = "prefetch"
    /\ IF channel = 0
       THEN \E w \in Answers(tasks[t]) : ConnectFail(t, "TypeError", w)
       ELSE /\ tasks' = [tasks EXCEPT ![t].pc = "exchange"]
            /\ ret' = NoRets
            /\ log' = {}
            /\ UNCHANGED isConnecting
    /\ UNCHANGED <<role, reconnectAttempts, durable, shutChannels, shutConns, supplied,
                   config, httpApp, connection, channel, reconnectCount, activeConsumers,
                   insertedAt, timers, connectCalls, listening, errored, closed, subs,
                   nextTag, evSince, schedSince, exhausted>>

\* ExchangeResolve without `this.reconnectCount = 0`.
ExchangeResolveNoReset(t) ==
    /\ tasks[t].pc = "exchange"
    /\ IF connection = 0
       THEN /\ \E w \in Answers(tasks[t]) : ConnectFail(t, "TypeError", w)
            /\ UNCHANGED <<listening, evSince, schedSince>>
       ELSE /\ listening' = listening \cup {connection}
            /\ isConnecting' = FALSE
            /\ evSince' = 0
            /\ schedSince' = 0
            /\ \E w \in Answers(tasks[t]) :
                   Apply(t, Settle(tasks[t], "ok", channel, w), {"connected"})
    /\ UNCHANGED <<role, reconnectAttempts, durable, shutChannels, shutConns, supplied,
                   config, httpApp, connection, channel, activeConsumers, insertedAt,
                   reconnectCount, timers, connectCalls, errored, closed, subs, nextTag,
                   exhausted>>

\* assertExchange resolves: this.connection.on('error'/'close', ...) (a
\* TypeError when this.connection is null by now), reconnectCount = 0,
\* isConnecting = false.
ExchangeResolve(t) ==
    /\ tasks[t].pc = "exchange"
    /\ IF connection = 0
       THEN /\ \E w \in Answers(tasks[t]) : ConnectFail(t, "TypeError", w)
            /\ UNCHANGED <<listening, reconnectCount, evSince, schedSince>>
       ELSE /\ listening' = listening \cup {connection}
            /\ reconnectCount' = 0
            /\ isConnecting' = FALSE
            /\ evSince' = 0
            /\ schedSince' = 0
            /\ \E w \in Answers(tasks[t]) :
                   Apply(t, Settle(tasks[t], "ok", channel, w), {"connected"})
    /\ UNCHANGED <<role, reconnectAttempts, durable, shutChannels, shutConns, supplied,
                   config, httpApp, connection, channel, activeConsumers, insertedAt,
                   timers, connectCalls, errored, closed, subs, nextTag, exhausted>>

\* One round of waitForConnection's checkConnection that finds the attempt
\* over (a round that finds isConnecting re-arms its 100 ms timer and
\* changes nothing).
WaitPoll(t) ==
    /\ tasks[t].pc = "waiting"
    /\ ~isConnecting
    /\ \E w \in Answers(tasks[t]) :
          LET s == Settle(tasks[t], IF isConnected THEN "ok" ELSE "Connection failed",
                          channel, w)
          IN Apply(t, [s EXCEPT !.ret = IF @.op = "none" THEN @
                                        ELSE [@ EXCEPT !.waited = TRUE,
                                                       !.c = tasks[t].c]], {})
    /\ UNCHANGED <<role, reconnectAttempts, durable, shutChannels, shutConns, supplied,
                   config, httpApp, connection, channel, isConnecting, reconnectCount,
                   activeConsumers, insertedAt, timers, connectCalls, listening, errored,
                   closed, subs, nextTag, evSince, schedSince, exhausted>>

----------------------------------------------------------------------------
\* ScheduleReconnect with `>` for `>=`.
ScheduleReconnectOffByOne(baseLog) ==
    IF reconnectCount > reconnectAttempts THEN
        /\ log' = baseLog \cup {"max reconnection attempts reached"}
        /\ exhausted' = TRUE
        /\ UNCHANGED <<reconnectCount, timers, schedSince>>
    ELSE
        /\ reconnectCount' = reconnectCount + 1
        /\ timers' = timers + 1
        /\ schedSince' = schedSince + 1
        /\ log' = baseLog \cup {"scheduling reconnection"}
        /\ UNCHANGED exhausted

\* ScheduleReconnect without `this.reconnectCount++`.
ScheduleReconnectUncounted(baseLog) ==
    IF reconnectCount >= reconnectAttempts THEN
        /\ log' = baseLog \cup {"max reconnection attempts reached"}
        /\ exhausted' = TRUE
        /\ UNCHANGED <<reconnectCount, timers, schedSince>>
    ELSE
        /\ timers' = timers + 1
        /\ schedSince' = schedSince + 1
        /\ log' = baseLog \cup {"scheduling reconnection"}
        /\ UNCHANGED <<reconnectCount, exhausted>>

(* scheduleReconnect(), called by the two event handlers.                  *)
ScheduleReconnect(baseLog) ==
    IF reconnectCount >= reconnectAttempts THEN
        /\ log' = baseLog \cup {"max reconnection attempts reached"}
        /\ exhausted' = TRUE
        /\ UNCHANGED <<reconnectCount, timers, schedSince>>
    ELSE
        /\ reconnectCount' = reconnectCount + 1
        /\ timers' = timers + 1
        /\ schedSince' = schedSince + 1
        /\ log' = baseLog \cup {"scheduling reconnection"}
        /\ UNCHANGED exhausted

\* HandleDrop without `this.activeConsumers.clear()`.
HandleDropKeepRegistry(baseLog) ==
    /\ connection' = 0
    /\ channel' = 0
    /\ UNCHANGED <<activeConsumers, insertedAt>>
    /\ ScheduleReconnect(baseLog)

\* What both handlers do: drop the handles, clear the registry (consumer),
\* schedule a reconnect.
HandleDrop(baseLog) ==
    /\ connection' = 0
    /\ channel' = 0
    /\ activeConsumers' = EmptyRegistry
    /\ insertedAt' = EmptyRegistry
    /\ ScheduleReconnect(baseLog)

\* The connection object c emits 'error'.
HandleConnectionError(c) ==
    /\ c \in listening \ (errored \cup closed \cup shutConns)
    /\ errored' = errored \cup {c}
    /\ evSince' = evSince + 1
    /\ HandleDrop({"connection error"})
    /\ ret' = NoRets
    /\ UNCHANGED <<role, reconnectAttempts, durable, shutChannels, shutConns, supplied,
                   config, httpApp, isConnecting, connectCalls, listening, closed, subs,
                   nextTag, tasks>>

\* The connection object c emits 'close'.
HandleConnectionClose(c) ==
    /\ c \in listening \ closed
    /\ evSince' = evSince + 1
    /\ closed' = closed \cup {c}
    /\ HandleDrop({"connection closed unexpectedly"})
    /\ ret' = NoRets
    /\ UNCHANGED <<role, reconnectAttempts, durable, shutChannels, shutConns, supplied,
                   config, httpApp, isConnecting, connectCalls, listening, errored, subs,
                   nextTag, tasks>>

----------------------------------------------------------------------------
(* SkaniiAmqpProducer.publish / publishToQueue                             *)

\* Publish, calling connect() first whether or not there is a channel.
PublishAlwaysConnect(t) ==
    /\ role = "producer"
    /\ FreeSlot(t)
    /\ \E w \in WriteResults(channel) :
           ConnectEntry(t, [Idle EXCEPT !.op = "publish", !.implicit = (channel = 0)], w)
    /\ exhausted' = FALSE
    /\ UNCHANGED <<role, reconnectAttempts, durable, shutChannels, shutConns, supplied,
                   config, httpApp, connection, channel, reconnectCount, activeConsumers,
                   insertedAt, timers, listening, errored, closed, subs, nextTag, evSince,
                   schedSince>>

\* publish(message, options): with a channel the write is made in the same
\* turn; without one connect() is awaited first.
Publish(t) ==
    /\ role = "producer"
    /\ FreeSlot(t)
    /\ IF channel # 0
       THEN /\ \E w \in WriteResults(channel) :
                   Apply(t, Write([Idle EXCEPT !.op = "publish"], channel, w), {})
            /\ UNCHANGED <<isConnecting, connectCalls, exhausted>>
       ELSE /\ ConnectEntry(t, [Idle EXCEPT !.op = "publish", !.implicit = TRUE], "true")
            /\ exhausted' = FALSE
    /\ UNCHANGED <<role, reconnectAttempts, durable, shutChannels, shutConns, supplied,
                   config, httpApp, connection, channel, reconnectCount, activeConsumers,
                   insertedAt, timers, listening, errored, closed, subs, nextTag, evSince,
                   schedSince>>

\* publishToQueue(queueName, message, options), up to `await assertQueue`.
PublishToQueue(t, q) ==
    /\ role = "producer"
    /\ FreeSlot(t)
    /\ IF channel # 0
       THEN /\ Apply(t, AssertQueueCall([Idle EXCEPT !.op = "publishToQueue",
                                                     !.q = q], channel), {})
            /\ UNCHANGED <<isConnecting, connectCalls, exhausted>>
       ELSE /\ ConnectEntry(t, [Idle EXCEPT !.op = "publishToQueue", !.q = q,
                                                 !.implicit = TRUE], "true")
            /\ exhausted' = FALSE
    /\ UNCHANGED <<role, reconnectAttempts, durable, shutChannels, shutConns, supplied,
                   config, httpApp, connection, channel, reconnectCount, activeConsumers,
                   insertedAt, timers, listening, errored, closed, subs, nextTag, evSince,
                   schedSince>>

\* assertQueue of publishToQueue resolves: this.channel!.sendToQueue, on
\* whatever this.channel is by now.
SendToQueue(t) ==
    /\ tasks[t].op = "publishToQueue"
    /\ tasks[t].pc = "assertQueue"
    /\ ~Dead(tasks[t].c)
    /\ \E w \in WriteResults(channel) : Apply(t, Write(tasks[t], channel, w), {})
    /\ UNCHANGED <<role, reconnectAttempts, durable, shutChannels, shutConns, supplied,
                   config, httpApp, clientVars, connectCalls, subs, nextTag, evSince,
                   schedSince, exhausted>>

\* assertQueue rejects: publishToQueue awaits it outside its try block,
\* consume inside (log, rethrow).
AssertQueueReject(t) ==
    /\ tasks[t].pc = "assertQueue"
    /\ Apply(t, [task |-> Idle,
                 log |-> IF tasks[t].op = "consume" THEN {"consume failed"} ELSE {},
                 ret |-> [Ret(tasks[t]) EXCEPT !.v = "assertQueue"]], {})
    /\ UNCHANGED <<role, reconnectAttempts, durable, shutChannels, shutConns, supplied,
                   config, httpApp, clientVars, connectCalls, subs, nextTag, evSince,
                   schedSince, exhausted>>

\* What the drain listener of a suspended write does: resolve, so the call
\* logs and returns true.
Drained(tk) ==
    [task |-> Idle, log |-> {"published"},
     ret |-> [Ret(tk) EXCEPT !.v = "ok", !.writes = tk.writes, !.full = tk.full,
                             !.drained = TRUE, !.wch = tk.c]]

\* The channel ch emits 'drain': every listener registered with once() runs.
Drain(ch) ==
    /\ ~Dead(ch)
    /\ \E t \in Tasks : tasks[t].pc = "drain" /\ tasks[t].c = ch
    /\ tasks' = [t \in Tasks |->
                    IF tasks[t].pc = "drain" /\ tasks[t].c = ch
                    THEN Drained(tasks[t]).task ELSE tasks[t]]
    /\ ret' = [t \in Tasks |->
                    IF tasks[t].pc = "drain" /\ tasks[t].c = ch
                    THEN Drained(tasks[t]).ret ELSE NoRet]
    /\ log' = {"published"}
    /\ UNCHANGED <<role, reconnectAttempts, durable, shutChannels, shutConns, supplied,
                   config, httpApp, clientVars, connectCalls, subs, nextTag, evSince,
                   schedSince, exhausted>>

----------------------------------------------------------------------------
(* SkaniiAmqpConsumer.consume                                              *)

RoutingKeyLists == {<<>>, <<"k1", "k2">>}

\* BindKey, binding every time with the first routing key.
BindKeyFirst(keys, i) == IF keys = <<>> THEN "" ELSE keys[1]

\* The routing key of the i-th bindQueue call of a consume with these keys.
BindKey(keys, i) == IF keys = <<>> THEN "" ELSE keys[i]

\* The catch block of consume(): log, rethrow.
ConsumeFail(tk, err) ==
    [task |-> Idle, log |-> {"consume failed"},
     ret |-> [Ret(tk) EXCEPT !.v = err, !.bound = tk.bound]]

\* this.channel!.bindQueue(queueName, exchange, key) for the i-th key.
BindCall(tk, ch, i) ==
    IF ch = 0 THEN ConsumeFail(tk, "TypeError")
    ELSE [task |-> [tk EXCEPT !.pc = "bind", !.c = ch, !.i = i,
                              !.bound = Append(tk.bound, BindKey(tk.keys, i))],
          log |-> {}, ret |-> NoRet]

\* this.channel!.consume(queueName, callback, {noAck, ...}).
ConsumeCall(tk, ch) ==
    IF ch = 0 THEN ConsumeFail(tk, "TypeError")
    ELSE [task |-> [tk EXCEPT !.pc = "consumeStart", !.c = ch], log |-> {},
          ret |-> NoRet]

\* consume(options, handler), up to `await assertQueue`.
Consume(t, q, noAck, keys) ==
    /\ role = "consumer"
    /\ FreeSlot(t)
    /\ LET tk == [Idle EXCEPT !.op = "consume", !.q = q, !.noAck = noAck,
                               !.keys = keys]
       IN IF channel # 0
          THEN /\ Apply(t, AssertQueueCall(tk, channel), {})
               /\ UNCHANGED <<isConnecting, connectCalls, exhausted>>
          ELSE /\ ConnectEntry(t, [tk EXCEPT !.implicit = TRUE], "true")
               /\ exhausted' = FALSE
    /\ UNCHANGED <<role, reconnectAttempts, durable, shutChannels, shutConns, supplied,
                   config, httpApp, connection, channel, reconnectCount, activeConsumers,
                   insertedAt, timers, listening, errored, closed, subs, nextTag, evSince,
                   schedSince>>

\* assertQueue of consume resolves: the first bindQueue call.
BindFirst(t) ==
    /\ tasks[t].op = "consume"
    /\ tasks[t].pc = "assertQueue"
    /\ ~Dead(tasks[t].c)
    /\ Apply(t, BindCall(tasks[t], channel, 1), {})
    /\ UNCHANGED <<role, reconnectAttempts, durable, shutChannels, shutConns, supplied,
                   config, httpApp, clientVars, connectCalls, subs, nextTag, evSince,
                   schedSince, exhausted>>

\* A bindQueue resolves: the next one, or channel.consume after the last.
BindResolve(t) ==
    /\ tasks[t].pc = "bind"
    /\ ~Dead(tasks[t].c)
    /\ IF tasks[t].i < Len(tasks[t].keys)
       THEN Apply(t, BindCall(tasks[t], channel, tasks[t].i + 1), {"bound"})
       ELSE Apply(t, ConsumeCall(tasks[t], channel), {"bound"})
    /\ UNCHANGED <<role, reconnectAttempts, durable, shutChannels, shutConns, supplied,
                   config, httpApp, clientVars, connectCalls, subs, nextTag, evSince,
                   schedSince, exhausted>>

\* ConsumeStepReject, recording the queue in the registry all the same.
ConsumeStepRejectRegisters(t) ==
    /\ tasks[t].pc \in {"bind", "consumeStart"}
    /\ Apply(t, ConsumeFail(tasks[t], tasks[t].pc), {})
    /\ activeConsumers' = [activeConsumers EXCEPT ![tasks[t].q] = nextTag + 1]
    /\ insertedAt' = [insertedAt EXCEPT ![tasks[t].q] = IF @ = 0 THEN nextTag + 1 ELSE @]
    /\ UNCHANGED <<role, reconnectAttempts, durable, shutChannels, shutConns, supplied,
                   config, httpApp, connection, channel, isConnecting, reconnectCount,
                   timers, listening, errored, closed, connectCalls, subs, nextTag,
                   evSince, schedSince, exhausted>>

\* A bindQueue or channel.consume rejects.
ConsumeStepReject(t) ==
    /\ tasks[t].pc \in {"bind", "consumeStart"}
    /\ Apply(t, ConsumeFail(tasks[t], tasks[t].pc), {})
    /\ UNCHANGED <<role, reconnectAttempts, durable, shutChannels, shutConns, supplied,
                   config, httpApp, clientVars, connectCalls, subs, nextTag, evSince,
                   schedSince, exhausted>>

\* ConsumeStartedUpTo, cancelling the subscriptions the queue already has.
ConsumeStartedCancelsEarlier(t, n) ==
    /\ tasks[t].pc = "consumeStart"
    /\ ~Dead(tasks[t].c)
    /\ nextTag < n
    /\ nextTag' = nextTag + 1
    /\ subs' = {s \in subs : s.q # tasks[t].q}
                  \cup {[tag |-> nextTag + 1, q |-> tasks[t].q, ch |-> tasks[t].c,
                          noAck |-> tasks[t].noAck]}
    /\ activeConsumers' = [activeConsumers EXCEPT ![tasks[t].q] = nextTag + 1]
    /\ insertedAt' = [insertedAt EXCEPT ![tasks[t].q] = IF @ = 0 THEN nextTag + 1 ELSE @]
    /\ Apply(t, [task |-> Idle, log |-> {"started consuming"},
                 ret |-> [Ret(tasks[t]) EXCEPT !.v = "ok",
                                       !.tag = nextTag + 1,
                                       !.bound = tasks[t].bound]], {})
    /\ UNCHANGED <<role, reconnectAttempts, durable, shutChannels, shutConns, supplied,
                   config, httpApp, connection, channel, isConnecting, reconnectCount,
                   timers, listening, errored, closed, connectCalls, evSince, schedSince,
                   exhausted>>

\* channel.consume resolves with the consumer tag the broker assigned (the
\* n-th at most): this.activeConsumers.set(queueName, tag).
ConsumeStartedUpTo(t, n) ==
    /\ tasks[t].pc = "consumeStart"
    /\ ~Dead(tasks[t].c)
    /\ nextTag < n
    /\ nextTag' = nextTag + 1
    /\ subs' = subs \cup {[tag |-> nextTag + 1, q |-> tasks[t].q, ch |-> tasks[t].c,
                            noAck |-> tasks[t].noAck]}
    /\ activeConsumers' = [activeConsumers EXCEPT ![tasks[t].q] = nextTag + 1]
    /\ insertedAt' = [insertedAt EXCEPT ![tasks[t].q] = IF @ = 0 THEN nextTag + 1 ELSE @]
    /\ Apply(t, [task |-> Idle, log |-> {"started consuming"},
                 ret |-> [Ret(tasks[t]) EXCEPT !.v = "ok",
                                       !.tag = nextTag + 1,
                                       !.bound = tasks[t].bound]], {})
    /\ UNCHANGED <<role, reconnectAttempts, durable, shutChannels, shutConns, supplied,
                   config, httpApp, connection, channel, isConnecting, reconnectCount,
                   timers, listening, errored, closed, connectCalls, evSince, schedSince,
                   exhausted>>

\* channel.consume resolves, on a consumer that receives deliveries.
ConsumeStarted(t) == ConsumeStartedUpTo(t, MaxTags)

\* channel.consume resolves, on a consumer whose deliveries are left out.
ConsumeRestarted(t) == ConsumeStartedUpTo(t, MaxRegistryTags)

----------------------------------------------------------------------------
(* The delivery callback that consume() hands to channel.consume           *)

Scripts == {"none", "ack", "nack"}

\* The handler has used the callback its script names.
Called(tk) == \E k \in 1..Len(tk.acks) : tk.acks[k].by = "handler"

\* Catch, with the nack issued whatever noAck is.
CatchAlwaysNack(tk, ch, how) ==
    LET r == [NoRet EXCEPT !.op = "deliver", !.noAck = tk.noAck, !.script = tk.script,
                           !.handler = how, !.c = tk.c]
    IN IF ch = 0 THEN
           [task |-> Idle, log |-> {"error processing message"},
            ret |-> [r EXCEPT !.v = "TypeError", !.acks = tk.acks]]
       ELSE
           [task |-> Idle, log |-> {"error processing message"},
            ret |-> [r EXCEPT !.v = "ok",
                              !.acks = Append(tk.acks, [by |-> "loop", kind |-> "nack",
                                                        ch |-> ch])]]

\* The catch block of the callback: log; unless noAck,
\* this.channel!.nack(message, false, true), a TypeError that escapes the
\* callback when this.channel is null.
Catch(tk, ch, how) ==
    LET r == [NoRet EXCEPT !.op = "deliver", !.noAck = tk.noAck, !.script = tk.script,
                           !.handler = how, !.c = tk.c]
    IN IF tk.noAck THEN
           [task |-> Idle, log |-> {"error processing message"},
            ret |-> [r EXCEPT !.v = "ok", !.acks = tk.acks]]
       ELSE IF ch = 0 THEN
           [task |-> Idle, log |-> {"error processing message"},
            ret |-> [r EXCEPT !.v = "TypeError", !.acks = tk.acks]]
       ELSE
           [task |-> Idle, log |-> {"error processing message"},
            ret |-> [r EXCEPT !.v = "ok",
                              !.acks = Append(tk.acks, [by |-> "loop", kind |-> "nack",
                                                        ch |-> ch])]]

\* After `await messageHandler(...)` returned: unless noAck,
\* this.channel!.ack(message); a TypeError lands in the catch block.
AfterHandler(tk, ch) ==
    LET r == [NoRet EXCEPT !.op = "deliver", !.noAck = tk.noAck, !.script = tk.script,
                           !.handler = "return", !.c = tk.c]
    IN IF tk.noAck THEN
           [task |-> Idle, log |-> {}, ret |-> [r EXCEPT !.v = "ok", !.acks = tk.acks]]
       ELSE IF ch = 0 THEN Catch(tk, ch, "return")
       ELSE
           [task |-> Idle, log |-> {},
            ret |-> [r EXCEPT !.v = "ok",
                              !.acks = Append(tk.acks, [by |-> "loop", kind |-> "ack",
                                                        ch |-> ch])]]

\* The broker library calls the callback of subscription s with a message:
\* the handler starts.
Deliver(t, s, script) ==
    /\ s \in subs
    /\ ~Dead(s.ch)
    /\ FreeSlot(t)
    /\ tasks' = [tasks EXCEPT ![t] = [Idle EXCEPT !.op = "deliver", !.pc = "handler",
                                                  !.c = s.ch, !.q = s.q,
                                                  !.noAck = s.noAck, !.script = script]]
    /\ ret' = NoRets
    /\ log' = {}
    /\ UNCHANGED <<role, reconnectAttempts, durable, shutChannels, shutConns, supplied,
                   config, httpApp, clientVars, connectCalls, subs, nextTag, evSince,
                   schedSince, exhausted>>

\* DeliverNull, with the catch block's log and nack executed for null too.
DeliverNullNacks(t, s) ==
    /\ s \in subs
    /\ ~Dead(s.ch)
    /\ FreeSlot(t)
    /\ ret' = [NoRets EXCEPT ![t] =
                  [NoRet EXCEPT !.op = "deliver", !.v = "ok", !.noAck = s.noAck,
                                !.c = s.ch, !.q = s.q,
                                !.acks = <<[by |-> "loop", kind |-> "nack",
                                            ch |-> channel]>>]]
    /\ log' = {"error processing message"}
    /\ UNCHANGED <<role, reconnectAttempts, durable, shutChannels, shutConns, supplied,
                   config, httpApp, clientVars, connectCalls, subs, nextTag, evSince,
                   schedSince, exhausted, tasks>>

\* The broker library calls the callback with null: `if (message)` skips
\* all and the callback returns at once; the handler is not called.
DeliverNull(t, s) ==
    /\ s \in subs
    /\ ~Dead(s.ch)
    /\ FreeSlot(t)
    /\ ret' = [NoRets EXCEPT ![t] =
                  [NoRet EXCEPT !.op = "deliver", !.v = "ok", !.noAck = s.noAck,
                                !.c = s.ch, !.q = s.q]]
    /\ log' = {}
    /\ UNCHANGED <<role, reconnectAttempts, durable, shutChannels, shutConns, supplied,
                   config, httpApp, clientVars, connectCalls, subs, nextTag, evSince,
                   schedSince, exhausted, tasks>>

\* The handler calls the ack or nack closure it was given:
\* this.channel!.ack(message) / this.channel!.nack(message, false, true).
\* With this.channel null the call is a TypeError inside the handler, which
\* ends the handler with that exception.
HandlerCallback(t) ==
    /\ tasks[t].pc = "handler"
    /\ tasks[t].script # "none"
    /\ ~Called(tasks[t])
    /\ IF channel = 0
       THEN Apply(t, Catch(tasks[t], channel, "raise"), {})
       ELSE /\ tasks' = [tasks EXCEPT ![t].acks =
                            Append(@, [by |-> "handler", kind |-> tasks[t].script,
                                       ch |-> channel])]
            /\ ret' = NoRets
            /\ log' = {}
    /\ UNCHANGED <<role, reconnectAttempts, durable, shutChannels, shutConns, supplied,
                   config, httpApp, clientVars, connectCalls, subs, nextTag, evSince,
                   schedSince, exhausted>>

\* The handler returns (its promise resolves).
HandlerReturn(t) ==
    /\ tasks[t].pc = "handler"
    /\ tasks[t].script = "none" \/ Called(tasks[t])
    /\ Apply(t, AfterHandler(tasks[t], channel), {})
    /\ UNCHANGED <<role, reconnectAttempts, durable, shutChannels, shutConns, supplied,
                   config, httpApp, clientVars, connectCalls, subs, nextTag, evSince,
                   schedSince, exhausted>>

\* The handler throws (its promise rejects).
HandlerRaise(t) ==
    /\ tasks[t].pc = "handler"
    /\ Apply(t, Catch(tasks[t], channel, "raise"), {})
    /\ UNCHANGED <<role, reconnectAttempts, durable, shutChannels, shutConns, supplied,
                   config, httpApp, clientVars, connectCalls, subs, nextTag, evSince,
                   schedSince, exhausted>>

----------------------------------------------------------------------------
(* SkaniiAmqpConsumer.stopConsuming, ack, nack, reject; close of both      *)
(* classes                                                                 *)

\* The entries of the registry reg that a Map iterator at position pos has
\* still to visit: iteration follows insertion order, at the order.
Unvisited(reg, at, pos) == {q \in Queues : reg[q] # 0 /\ at[q] > pos}

\* The entry such an iterator yields next.
NextEntry(reg, at, pos) ==
    CHOOSE q \in Unvisited(reg, at, pos) :
        \A r \in Unvisited(reg, at, pos) : at[q] <= at[r]

\* this.channel.cancel(consumerTag), with the tag read from the registry.
CancelCall(tk, q, tag, ch) ==
    [task |-> [tk EXCEPT !.pc = "cancel", !.c = ch, !.q = q, !.tag = tag,
                         !.cancels = Append(@, [tag |-> tag, ch |-> ch, q |-> q])],
     log |-> {}, ret |-> NoRet]

\* The catch block of close(): log, rethrow.
CloseFail(tk, err, baseLog) ==
    [task |-> Idle, log |-> baseLog \cup {"error closing"},
     ret |-> [Ret(tk) EXCEPT !.v = err]]

\* `if (this.connection) await this.connection.close()`; without a
\* connection close() is finished.
CloseConnectionCall(tk, conn) ==
    IF conn # 0 THEN
        [task |-> [tk EXCEPT !.pc = "connectionClose", !.c = conn,
                             !.closes = Append(@, [what |-> "connection", c |-> conn])],
         log |-> {}, ret |-> NoRet]
    ELSE
        [task |-> Idle, log |-> {"closed"}, ret |-> [Ret(tk) EXCEPT !.v = "ok"]]

\* `if (this.channel) await this.channel.close()`, then the connection.
CloseChannelCall(tk, ch, conn) ==
    IF ch # 0 THEN
        [task |-> [tk EXCEPT !.pc = "channelClose", !.c = ch,
                             !.closes = Append(@, [what |-> "channel", c |-> ch])],
         log |-> {}, ret |-> NoRet]
    ELSE CloseConnectionCall(tk, conn)

\* The loop of the consumer's close() over the registry, from the iterator
\* position of tk: stopConsuming(queueName) for the next entry.  Without a
\* channel every stopConsuming returns with its warning and the loop runs
\* to its end.  (The producer has no registry: reg is empty.)
CloseLoop(tk, reg, at, ch, conn) ==
    IF Unvisited(reg, at, tk.pos) = {} THEN CloseChannelCall(tk, ch, conn)
    ELSE IF ch = 0 THEN
        [CloseConnectionCall(tk, conn) EXCEPT !.log = @ \cup {"no active consumer"}]
    ELSE LET q == NextEntry(reg, at, tk.pos)
         IN CancelCall([tk EXCEPT !.pos = at[q]], q, reg[q], ch)

\* StopConsuming, going on to the cancel call without a registry entry.
StopConsumingAlwaysCancels(t, q) ==
    /\ role = "consumer"
    /\ FreeSlot(t)
    /\ LET tk == [Idle EXCEPT !.op = "stopConsuming", !.q = q]
       IN IF channel = 0
          THEN Apply(t, [task |-> Idle, log |-> {"no active consumer"},
                         ret |-> [Ret(tk) EXCEPT !.v = "ok"]], {})
          ELSE Apply(t, CancelCall(tk, q, activeConsumers[q], channel), {})
    /\ UNCHANGED <<role, reconnectAttempts, durable, shutChannels, shutConns, supplied,
                   config, httpApp, clientVars, connectCalls, subs, nextTag, evSince,
                   schedSince, exhausted>>

\* stopConsuming(q), up to `await this.channel.cancel(tag)`.
StopConsuming(t, q) ==
    /\ role = "consumer"
    /\ FreeSlot(t)
    /\ LET tk == [Idle EXCEPT !.op = "stopConsuming", !.q = q]
       IN IF activeConsumers[q] = 0 \/ channel = 0
          THEN Apply(t, [task |-> Idle, log |-> {"no active consumer"},
                         ret |-> [Ret(tk) EXCEPT !.v = "ok"]], {})
          ELSE Apply(t, CancelCall(tk, q, activeConsumers[q], channel), {})
    /\ UNCHANGED <<role, reconnectAttempts, durable, shutChannels, shutConns, supplied,
                   config, httpApp, clientVars, connectCalls, subs, nextTag, evSince,
                   schedSince, exhausted>>

\* CancelResolve, leaving the entry in the registry.
CancelResolveKeepsEntry(t) ==
    /\ tasks[t].pc = "cancel"
    /\ ~Dead(tasks[t].c)
    /\ subs' = {s \in subs : ~(s.tag = tasks[t].tag /\ s.ch = tasks[t].c)}
    /\ Apply(t, [task |-> Idle, log |-> {},
                 ret |-> [Ret(tasks[t]) EXCEPT !.v = "ok"]], {"stopped consuming"})
    /\ UNCHANGED <<role, reconnectAttempts, durable, shutChannels, shutConns, supplied,
                   config, httpApp, clientVars, connectCalls, nextTag, evSince, schedSince,
                   exhausted>>

\* channel.cancel resolves: this.activeConsumers.delete(queueName); the
\* broker has dropped the subscription with that tag.  In close() the loop
\* goes on.
CancelResolve(t) ==
    /\ tasks[t].pc = "cancel"
    /\ ~Dead(tasks[t].c)
    /\ subs' = {s \in subs : ~(s.tag = tasks[t].tag /\ s.ch = tasks[t].c)}
    /\ activeConsumers' = [activeConsumers EXCEPT ![tasks[t].q] = 0]
    /\ insertedAt' = [insertedAt EXCEPT ![tasks[t].q] = 0]
    /\ IF tasks[t].op = "close"
       THEN Apply(t, CloseLoop(tasks[t], activeConsumers', insertedAt', channel,
                               connection), {"stopped consuming"})
       ELSE Apply(t, [task |-> Idle, log |-> {},
                      ret |-> [Ret(tasks[t]) EXCEPT !.v = "ok"]], {"stopped consuming"})
    /\ UNCHANGED <<role, reconnectAttempts, durable, shutChannels, shutConns, supplied,
                   config, httpApp, connection, channel, isConnecting, reconnectCount,
                   timers, listening, errored, closed, connectCalls, nextTag, evSince,
                   schedSince, exhausted>>

\* CancelReject, deleting the entry from the registry all the same.
CancelRejectDeletes(t) ==
    /\ tasks[t].pc = "cancel"
    /\ activeConsumers' = [activeConsumers EXCEPT ![tasks[t].q] = 0]
    /\ insertedAt' = [insertedAt EXCEPT ![tasks[t].q] = 0]
    /\ Apply(t, [task |-> Idle, log |-> {"failed to stop consuming"},
                 ret |-> [Ret(tasks[t]) EXCEPT !.v = "cancel"]], {})
    /\ UNCHANGED <<role, reconnectAttempts, durable, shutChannels, shutConns, supplied,
                   config, httpApp, connection, channel, isConnecting, reconnectCount,
                   timers, listening, errored, closed, connectCalls, subs, nextTag,
                   evSince, schedSince, exhausted>>

\* channel.cancel rejects: the catch block of stopConsuming logs and
\* rethrows; in close() the catch block of close() does the same.
CancelReject(t) ==
    /\ tasks[t].pc = "cancel"
    /\ IF tasks[t].op = "close"
       THEN Apply(t, CloseFail(tasks[t], "cancel", {"failed to stop consuming"}), {})
       ELSE Apply(t, [task |-> Idle, log |-> {"failed to stop consuming"},
                      ret |-> [Ret(tasks[t]) EXCEPT !.v = "cancel"]], {})
    /\ UNCHANGED <<role, reconnectAttempts, durable, shutChannels, shutConns, supplied,
                   config, httpApp, clientVars, connectCalls, subs, nextTag, evSince,
                   schedSince, exhausted>>

\* close(), up to its first await.
Close(t) ==
    /\ FreeSlot(t)
    /\ Apply(t, CloseLoop([Idle EXCEPT !.op = "close"], activeConsumers, insertedAt,
                          channel, connection), {})
    /\ UNCHANGED <<role, reconnectAttempts, durable, shutChannels, shutConns, supplied,
                   config, httpApp, clientVars, connectCalls, subs, nextTag, evSince,
                   schedSince, exhausted>>

\* channel.close() resolves: this.channel = null, then the connection.
ChannelCloseResolve(t) ==
    /\ tasks[t].pc = "channelClose"
    /\ ~Dead(tasks[t].c)
    /\ shutChannels' = shutChannels \cup {tasks[t].c}
    /\ channel' = 0
    /\ Apply(t, CloseConnectionCall(tasks[t], connection), {})
    /\ UNCHANGED <<role, reconnectAttempts, durable, shutConns, supplied, config, httpApp,
                   connection, isConnecting, reconnectCount, activeConsumers, insertedAt,
                   timers, listening, errored, closed, connectCalls, subs, nextTag,
                   evSince, schedSince, exhausted>>

\* CloseStepReject, dropping the handle whose close failed.
CloseStepRejectDropsHandle(t) ==
    /\ tasks[t].pc \in {"channelClose", "connectionClose"}
    /\ Apply(t, CloseFail(tasks[t], tasks[t].pc, {}), {})
    /\ channel' = IF tasks[t].pc = "channelClose" THEN 0 ELSE channel
    /\ connection' = IF tasks[t].pc = "connectionClose" THEN 0 ELSE connection
    /\ UNCHANGED <<role, reconnectAttempts, durable, shutChannels, shutConns, supplied,
                   config, httpApp, isConnecting, reconnectCount, activeConsumers,
                   insertedAt, timers, listening, errored, closed, connectCalls, subs,
                   nextTag, evSince, schedSince, exhausted>>

\* channel.close() or connection.close() rejects: log, rethrow.
CloseStepReject(t) ==
    /\ tasks[t].pc \in {"channelClose", "connectionClose"}
    /\ Apply(t, CloseFail(tasks[t], tasks[t].pc, {}), {})
    /\ UNCHANGED <<role, reconnectAttempts, durable, shutChannels, shutConns, supplied,
                   config, httpApp, clientVars, connectCalls, subs, nextTag, evSince,
                   schedSince, exhausted>>

\* connection.close() resolves: this.connection = null, log.
ConnectionCloseResolve(t) ==
    /\ tasks[t].pc = "connectionClose"
    /\ tasks[t].c \notin errored \cup closed \cup shutConns
    /\ shutConns' = shutConns \cup {tasks[t].c}
    /\ connection' = 0
    /\ Apply(t, [task |-> Idle, log |-> {"closed"},
                 ret |-> [Ret(tasks[t]) EXCEPT !.v = "ok"]], {})
    /\ UNCHANGED <<role, reconnectAttempts, durable, supplied, config, httpApp,
                   shutChannels, channel, isConnecting, reconnectCount, activeConsumers,
                   insertedAt, timers, listening, errored, closed, connectCalls, subs,
                   nextTag, evSince, schedSince, exhausted>>

\* How the application calls ack / nack / reject: with the flag or without.
Flags == {"omitted", "true", "false"}

\* The default of the second parameter: allUpTo = false, requeue = true for
\* nack, requeue = false for reject.
FlagDefault(kind) == IF kind = "nack" THEN TRUE ELSE FALSE

\* The value of the second parameter inside the method.
FlagValue(kind, flag) == IF flag = "omitted" THEN FlagDefault(kind) ELSE flag = "true"

\* Forward, calling the channel whether or not the client has one.
ForwardUnguarded(kind, flag, ch) ==
    <<[method |-> kind, ch |-> ch,
       allUpTo |-> IF kind = "ack" THEN FlagValue(kind, flag) ELSE FALSE,
       requeue |-> IF kind = "ack" THEN FALSE ELSE FlagValue(kind, flag)]>>

\* The channel calls of ack(message, allUpTo) / nack(message, requeue) /
\* reject(message, requeue): channel.ack(message, allUpTo),
\* channel.nack(message, false, requeue), channel.reject(message, requeue),
\* each under `if (this.channel)`.
Forward(kind, flag, ch) ==
    IF ch = 0 THEN <<>>
    ELSE <<[method |-> kind, ch |-> ch,
            allUpTo |-> IF kind = "ack" THEN FlagValue(kind, flag) ELSE FALSE,
            requeue |-> IF kind = "ack" THEN FALSE ELSE FlagValue(kind, flag)]>>

\* The application calls ack, nack or reject; a call on a channel whose
\* transport is gone throws.
Acknowledge(t, kind, flag) ==
    /\ role = "consumer"
    /\ FreeSlot(t)
    /\ LET calls == Forward(kind, flag, channel)
       IN ret' = [NoRets EXCEPT ![t] =
                     [NoRet EXCEPT !.op = kind, !.flag = flag, !.calls = calls,
                                   !.v = IF calls = <<>> THEN "ok"
                                         ELSE IF calls[1].ch = 0 THEN "TypeError"
                                         ELSE IF Dead(calls[1].ch) THEN "throw"
                                         ELSE "ok"]]
    /\ log' = {}
    /\ UNCHANGED <<role, reconnectAttempts, durable, shutChannels, shutConns, supplied,
                   config, httpApp, clientVars, connectCalls, subs, nextTag, evSince,
                   schedSince, exhausted, tasks>>

----------------------------------------------------------------------------
(* The constructors of SkaniiAmqpProducer and SkaniiAmqpConsumer           *)

\* The value of a property is written as the string ToString gives.
Absent == "absent"              \* the object has no such property
Undefined == "undefined"        \* the property is there, with the value undefined

ConfigFields == {"url", "exchange", "exchangeType", "durable", "reconnectAttempts",
                 "reconnectDelay", "prefetchCount"}

\* this.config before the constructor has assigned it.
Unconstructed == [f \in ConfigFields |-> "unconstructed"]

\* The object literal the constructor spreads the caller's config over; the
\* producer's has no prefetchCount.
Defaults(r) ==
    [url |-> Absent, exchange |-> "skanii", exchangeType |-> "topic",
     durable |-> ToString(TRUE), reconnectAttempts |-> ToString(5),
     reconnectDelay |-> ToString(5000),
     prefetchCount |-> IF r = "consumer" THEN ToString(10) ELSE Absent]

\* ResolveConfig, with the defaults spread after the caller's config.
ResolveConfigDefaultsLast(r, given) ==
    [f \in ConfigFields |-> IF Defaults(r)[f] # Absent THEN Defaults(r)[f] ELSE given[f]]

\* this.config = { ...defaults, ...config }: every own property of the
\* caller's object replaces the default, whatever its value.
ResolveConfig(r, given) ==
    [f \in ConfigFields |-> IF given[f] # Absent THEN given[f] ELSE Defaults(r)[f]]

\* The config objects a caller passes: url always, every optional field
\* left out, given a value other than the default, or given as undefined;
\* prefetchCount is a field of the consumer's config only.
SuppliedConfigs(r) ==
    [url : {"amqp://broker"},
     exchange : {Absent, "orders", Undefined},
     exchangeType : {Absent, "direct", Undefined},
     durable : {Absent, ToString(FALSE), Undefined},
     reconnectAttempts : {Absent, ToString(0), Undefined},
     reconnectDelay : {Absent, ToString(100), Undefined},
     prefetchCount : IF r = "consumer" THEN {Absent, ToString(1), Undefined}
                     ELSE {Absent}]

\* The config object behind the two settings the connection actions read.
Given(attempts, dur) ==
    [url |-> "amqp://broker", exchange |-> Absent, exchangeType |-> Absent,
     durable |-> ToString(dur), reconnectAttempts |-> ToString(attempts),
     reconnectDelay |-> Absent,
     prefetchCount |-> Absent]

\* The constructor assigns this.config.
Construct ==
    /\ config = Unconstructed
    /\ config' = ResolveConfig(role, supplied)
    /\ UNCHANGED <<role, reconnectAttempts, durable, supplied, httpApp, shutChannels,
                   shutConns, clientVars, connectCalls, subs, nextTag, tasks, ret, log,
                   evSince, schedSince, exhausted>>

----------------------------------------------------------------------------
(* SkaniiHttpApp                                                           *)

MaxServeCalls == 2  \* calls of serve in one behaviour
MaxStops == 2       \* calls of server.close() in one behaviour
MaxRoutes == 2      \* routes registered on one app

Methods == {"GET", "POST", "PUT", "DELETE"}

\* The app after its constructor, given options.routes: server is
\* this._server (0 = null), routes the methods registered on the Hono app,
\* serveCalls / servers / closeCalls count the calls of serve, the servers
\* it returned and the calls of server.close(); announced: the listening
\* callback has run; op, v, log: the last call, its outcome and its log.
NewApp(routes) ==
    [server |-> 0, serveCalls |-> 0, servers |-> 0, closeCalls |-> 0,
     routes |-> routes, announced |-> FALSE, op |-> "none", v |-> "none", log |-> {}]

amqpVars == <<role, reconnectAttempts, durable, supplied, config, shutChannels, shutConns,
              clientVars, connectCalls, subs, nextTag, tasks, ret, log, evSince,
              schedSince, exhausted>>

\* Start, without the test of this._server.
StartAlwaysServes(result) ==
    /\ httpApp.serveCalls < MaxServeCalls
    /\ httpApp' = IF result = "ok"
                  THEN [httpApp EXCEPT !.server = httpApp.servers + 1,
                                       !.servers = @ + 1, !.serveCalls = @ + 1,
                                       !.announced = FALSE,
                                       !.op = "start", !.v = "ok", !.log = {"starting"}]
                  ELSE [httpApp EXCEPT !.serveCalls = @ + 1, !.op = "start",
                                       !.v = "throw", !.log = {"starting"}]
    /\ UNCHANGED amqpVars

\* start(): with a server, warn and return; else this._server =
\* clients.serve(...), which returns the server or throws.
Start(result) ==
    /\ IF httpApp.server # 0
       THEN httpApp' = [httpApp EXCEPT !.op = "start", !.v = "ok",
                                       !.log = {"already running"}]
       ELSE /\ httpApp.serveCalls < MaxServeCalls
            /\ httpApp' =
                  IF result = "ok"
                  THEN [httpApp EXCEPT !.server = httpApp.servers + 1,
                                       !.servers = @ + 1, !.serveCalls = @ + 1,
                                       !.op = "start", !.v = "ok", !.log = {"starting"}]
                  ELSE [httpApp EXCEPT !.serveCalls = @ + 1, !.op = "start",
                                       !.v = "throw", !.log = {"starting"}]
    /\ UNCHANGED amqpVars

\* The server calls the listening callback given to serve.
Listening ==
    /\ httpApp.server # 0
    /\ httpApp.closeCalls = 0
    /\ ~httpApp.announced
    /\ httpApp' = [httpApp EXCEPT !.announced = TRUE, !.op = "listening", !.v = "ok",
                                  !.log = {"running"}]
    /\ UNCHANGED amqpVars

\* stop(): without a server, warn and return; else this._server.close().
Stop ==
    /\ IF httpApp.server = 0
       THEN httpApp' = [httpApp EXCEPT !.op = "stop", !.v = "ok",
                                       !.log = {"not running"}]
       ELSE /\ httpApp.closeCalls < MaxStops
            /\ httpApp' = [httpApp EXCEPT !.closeCalls = @ + 1, !.op = "stop",
                                          !.v = "ok", !.log = {}]
    /\ UNCHANGED amqpVars

\* addRoute(method, path, handler): the switch over the method.
AddRoute(method) ==
    /\ Len(httpApp.routes) < MaxRoutes
    /\ httpApp' = IF method \in Methods
                  THEN [httpApp EXCEPT !.routes = Append(@, method), !.op = "addRoute",
                                       !.v = "ok", !.log = {}]
                  ELSE [httpApp EXCEPT !.op = "addRoute", !.v = "Invalid method",
                                       !.log = {}]
    /\ UNCHANGED amqpVars

----------------------------------------------------------------------------
\* The field initialisers of the two client classes.
InitFields ==
    /\ connection = 0
    /\ channel = 0
    /\ isConnecting = FALSE
    /\ reconnectCount = 0
    /\ activeConsumers = EmptyRegistry
    /\ insertedAt = EmptyRegistry
    /\ timers = 0
    /\ connectCalls = 0
    /\ listening = {}
    /\ errored = {}
    /\ closed = {}
    /\ shutChannels = {}
    /\ shutConns = {}
    /\ subs = {}
    /\ nextTag = 0
    /\ tasks = [t \in Tasks |-> Idle]
    /\ ret = NoRets
    /\ log = {}
    /\ evSince = 0
    /\ schedSince = 0
    /\ exhausted = FALSE

\* A client after its constructor, with the reconnectAttempts and durable
\* its caller supplied, next to an HTTP application without routes.
Init ==
    /\ role \in {"producer", "consumer"}
    /\ reconnectAttempts \in 0..MaxAttempts
    /\ durable \in BOOLEAN
    /\ supplied = Given(reconnectAttempts, durable)
    /\ config = ResolveConfig(role, supplied)
    /\ httpApp = NewApp(<<>>)
    /\ InitFields

\* The connect sequence, the reconnect timer and the connection events.
ConnNext ==
    \/ \E t \in Tasks : TimerFire(t)
    \/ \E t \in Tasks : TransportResolve(t)
    \/ \E t \in Tasks : ChannelResolve(t)
    \/ \E t \in Tasks : ExchangeResolve(t)
    \/ \E t \in Tasks : StepReject(t)
    \/ \E t \in Tasks : WaitPoll(t)
    \/ \E c \in Conns : HandleConnectionError(c)
    \/ \E c \in Conns : HandleConnectionClose(c)

\* The connection manager of both classes, driven by connect() calls.
Next ==
    \/ ConnNext
    \/ \E t \in Tasks : Connect(t)
    \/ \E t \in Tasks : PrefetchResolve(t)

Spec == Init /\ [][Next]_vars

\* SkaniiAmqpProducer with all its operations.
NextProducer ==
    \/ ConnNext
    \/ \E t \in Tasks : Connect(t)
    \/ \E t \in Tasks : Publish(t)
    \/ \E t \in Tasks, q \in OneQueue : PublishToQueue(t, q)
    \/ \E t \in Tasks : SendToQueue(t)
    \/ \E t \in Tasks : AssertQueueReject(t)
    \/ \E ch \in Conns : Drain(ch)

InitProducer == Init /\ role = "producer"

SpecProducer == InitProducer /\ [][NextProducer]_vars

\* What the event loop and the broker library are bound to do: a pending
\* promise of the connect sequence or of assertQueue settles, a waiter's
\* poll timer and a reconnect timer fire, and a channel whose transport is
\* up emits 'drain' for the writes waiting on it.
FairProducer ==
    /\ \A t \in Tasks :
          /\ WF_vars(TransportResolve(t) \/ ChannelResolve(t) \/ ExchangeResolve(t)
                        \/ StepReject(t))
          /\ WF_vars(WaitPoll(t))
          /\ WF_vars(SendToQueue(t) \/ AssertQueueReject(t))
          /\ WF_vars(TimerFire(t))
    /\ \A ch \in Conns : WF_vars(Drain(ch))

\* SkaniiAmqpProducer under that scheduling.
SpecProducerFair == SpecProducer /\ FairProducer

\* The calls the application has in progress.
AppCalls == {t \in Tasks : tasks[t].op \in {"connect", "consume", "stopConsuming", "close"}}

\* SkaniiAmqpConsumer with its operations; the application has at most
\* MaxConsumerCalls calls in progress.
NextConsumer ==
    \/ ConnNext
    \/ \E t \in Tasks : PrefetchResolve(t)
    \/ \E t \in Tasks : Cardinality(AppCalls) < MaxConsumerCalls /\ Connect(t)
    \/ \E t \in Tasks, q \in OneQueue, noAck \in BOOLEAN, keys \in RoutingKeyLists :
          Cardinality(AppCalls) < MaxConsumerCalls /\ Consume(t, q, noAck, keys)
    \/ \E t \in Tasks : BindFirst(t)
    \/ \E t \in Tasks : BindResolve(t)
    \/ \E t \in Tasks : AssertQueueReject(t)
    \/ \E t \in Tasks : ConsumeStepReject(t)
    \/ \E t \in Tasks : ConsumeStarted(t)
    \/ \E t \in Tasks, s \in subs, script \in Scripts : Deliver(t, s, script)
    \/ \E t \in Tasks, s \in subs : DeliverNull(t, s)
    \/ \E t \in Tasks : HandlerCallback(t)
    \/ \E t \in Tasks : HandlerReturn(t)
    \/ \E t \in Tasks : HandlerRaise(t)

InitConsumer == Init /\ role = "consumer"

SpecConsumer == InitConsumer /\ [][NextConsumer]_vars

\* The subscription management of SkaniiAmqpConsumer: connect and consume,
\* deliveries left out.
NextRegistry ==
    \/ ConnNext
    \/ \E t \in Tasks : PrefetchResolve(t)
    \/ \E t \in Tasks : Cardinality(AppCalls) < MaxConsumerCalls /\ Connect(t)
    \/ \E t \in Tasks, q \in OneQueue, noAck \in BOOLEAN, keys \in RoutingKeyLists :
          Cardinality(AppCalls) < MaxConsumerCalls /\ Consume(t, q, noAck, keys)
    \/ \E t \in Tasks : BindFirst(t)
    \/ \E t \in Tasks : BindResolve(t)
    \/ \E t \in Tasks : AssertQueueReject(t)
    \/ \E t \in Tasks : ConsumeStepReject(t)
    \/ \E t \in Tasks : ConsumeRestarted(t)

SpecRegistry == InitConsumer /\ [][NextRegistry]_vars

\* Subscribing, unsubscribing and closing: the consumer with consume,
\* stopConsuming and close, the producer with close; deliveries left out.
NextLifecycle ==
    \/ ConnNext
    \/ \E t \in Tasks : PrefetchResolve(t)
    \/ \E t \in Tasks : Cardinality(AppCalls) < MaxConsumerCalls /\ Connect(t)
    \/ \E t \in Tasks, q \in Queues :
          Cardinality(AppCalls) < MaxConsumerCalls /\ Consume(t, q, FALSE, <<>>)
    \/ \E t \in Tasks : BindFirst(t)
    \/ \E t \in Tasks : BindResolve(t)
    \/ \E t \in Tasks : AssertQueueReject(t)
    \/ \E t \in Tasks : ConsumeStepReject(t)
    \/ \E t \in Tasks : ConsumeRestarted(t)
    \/ \E t \in Tasks, q \in Queues :
          Cardinality(AppCalls) < MaxConsumerCalls /\ StopConsuming(t, q)
    \/ \E t \in Tasks : CancelResolve(t)
    \/ \E t \in Tasks : CancelReject(t)
    \/ \E t \in Tasks : Cardinality(AppCalls) < MaxConsumerCalls /\ Close(t)
    \/ \E t \in Tasks : ChannelCloseResolve(t)
    \/ \E t \in Tasks : ConnectionCloseResolve(t)
    \/ \E t \in Tasks : CloseStepReject(t)

InitLifecycle == Init /\ durable

SpecLifecycle == InitLifecycle /\ [][NextLifecycle]_vars

\* The consumer's ack / nack / reject in every state of its connection:
\* connect, the connection events, close and the three methods.
NextAck ==
    \/ Next
    \/ \E t \in Tasks : Cardinality(AppCalls) < MaxConsumerCalls /\ Close(t)
    \/ \E t \in Tasks : ChannelCloseResolve(t)
    \/ \E t \in Tasks : ConnectionCloseResolve(t)
    \/ \E t \in Tasks : CloseStepReject(t)
    \/ \E t \in Tasks, kind \in {"ack", "nack", "reject"}, flag \in Flags :
          Acknowledge(t, kind, flag)

InitAck == InitConsumer /\ durable

SpecAck == InitAck /\ [][NextAck]_vars

\* The consumer's calls overlapping one another on a connection that is
\* never dropped: connect, consume and close, as many in progress as there
\* are tasks, and neither connection events nor reconnect timers.
NextOverlap ==
    \/ \E t \in Tasks : Connect(t)
    \/ \E t \in Tasks : TransportResolve(t)
    \/ \E t \in Tasks : ChannelResolve(t)
    \/ \E t \in Tasks : PrefetchResolve(t)
    \/ \E t \in Tasks : ExchangeResolve(t)
    \/ \E t \in Tasks : StepReject(t)
    \/ \E t \in Tasks : WaitPoll(t)
    \/ \E t \in Tasks, q \in OneQueue : Consume(t, q, FALSE, <<>>)
    \/ \E t \in Tasks : BindFirst(t)
    \/ \E t \in Tasks : BindResolve(t)
    \/ \E t \in Tasks : AssertQueueReject(t)
    \/ \E t \in Tasks : ConsumeStepReject(t)
    \/ \E t \in Tasks : ConsumeRestarted(t)
    \/ \E t \in Tasks : CancelResolve(t)
    \/ \E t \in Tasks : CancelReject(t)
    \/ \E t \in Tasks : Close(t)
    \/ \E t \in Tasks : ChannelCloseResolve(t)
    \/ \E t \in Tasks : ConnectionCloseResolve(t)
    \/ \E t \in Tasks : CloseStepReject(t)

InitOverlap == InitConsumer /\ durable /\ reconnectAttempts = 0

SpecOverlap == InitOverlap /\ [][NextOverlap]_vars

\* The constructor, for every config object a caller can pass.
InitConfig ==
    /\ role \in {"producer", "consumer"}
    /\ supplied \in SuppliedConfigs(role)
    /\ config = Unconstructed
    /\ reconnectAttempts = 0
    /\ durable = TRUE
    /\ httpApp = NewApp(<<>>)
    /\ InitFields

NextConfig == Construct

SpecConfig == InitConfig /\ [][NextConfig]_vars

\* SkaniiHttpApp: start, stop, addRoute and the listening callback, on an
\* app constructed without routes or with one.
InitHttpApp ==
    /\ role = "producer"
    /\ reconnectAttempts = 0
    /\ durable = TRUE
    /\ supplied = Given(reconnectAttempts, durable)
    /\ config = ResolveConfig(role, supplied)
    /\ httpApp \in {NewApp(<<>>), NewApp(<<"GET">>)}
    /\ InitFields

NextHttpApp ==
    \/ \E result \in {"ok", "throw"} : Start(result)
    \/ Listening
    \/ Stop
    \/ \E method \in Methods \cup {"PATCH"} : AddRoute(method)

SpecHttpApp == InitHttpApp /\ [][NextHttpApp]_vars

----------------------------------------------------------------------------
(* Properties                                                              *)

EventLogs == {"connection error", "connection closed unexpectedly"}

Runners == {t \in Tasks : tasks[t].pc \in RunnerPcs}

\* C1: connect() calls that overlap an attempt in flight open one transport
\* connection: while isConnecting no step invokes amqp.connect, a call that
\* reaches connect() then (explicit, from the timer, or from publish /
\* publishToQueue without a channel) goes to waitForConnection, and at most
\* one connect sequence is in progress.
C1_OneTransportPerAttempt ==
    [][ /\ isConnecting => connectCalls' = connectCalls
        /\ \A t \in Tasks :
              ( /\ isConnecting
                /\ tasks[t].pc = "idle"
                /\ tasks'[t].pc # "idle"
                /\ tasks'[t].op \in {"connect", "timer"} \/ channel = 0 )
              => tasks'[t].pc = "waiting"
        /\ Cardinality({t \in Tasks : tasks'[t].pc \in RunnerPcs}) <= 1 ]_vars

\* A publish is waiting on the one attempt another call has in flight.
C1_Witness ==
    \E t, u \in Tasks :
        /\ tasks[t].pc = "waiting"
        /\ tasks[t].op \in {"publish", "publishToQueue"}
        /\ tasks[u].pc = "transport"
        /\ connectCalls = 1

\* C2: after k error/close events since the last successful connect,
\* min(k, reconnectAttempts) reconnects have been scheduled; the k-th event
\* schedules one iff k <= reconnectAttempts and writes the terminal log iff
\* k > reconnectAttempts.
C2_ReconnectBudget ==
    /\ schedSince = Min(evSince, reconnectAttempts)
    /\ log \cap EventLogs # {} =>
          /\ "scheduling reconnection" \in log <=> evSince <= reconnectAttempts
          /\ "max reconnection attempts reached" \in log <=> evSince > reconnectAttempts

\* An event beyond a non-zero budget has just written the terminal log.
C2_Witness ==
    /\ "max reconnection attempts reached" \in log
    /\ reconnectAttempts >= 1
    /\ evSince > reconnectAttempts
    /\ schedSince = reconnectAttempts

\* C3: a publish / publishToQueue whose write found the buffer full settles
\* only in a 'drain' of its channel, with success, and after one write.
C3_FullBufferWaitsForDrain ==
    \A t \in Tasks :
        /\ (ret[t].op \in {"publish", "publishToQueue"} /\ ret[t].full) =>
              ret[t].drained /\ ret[t].v = "ok" /\ ret[t].writes = 1
        /\ ret[t].drained => ret[t].full
        /\ tasks[t].pc = "drain" => tasks[t].full /\ tasks[t].writes = 1

\* A publishToQueue that found the buffer full has returned after a drain.
C3_Witness ==
    \E t \in Tasks :
        /\ ret[t].op = "publishToQueue"
        /\ ret[t].full
        /\ ret[t].drained
        /\ ret[t].v = "ok"

\* C4: a non-null delivery with noAck = false whose handler uses neither callback
\* gets exactly one ack when the handler returns, and exactly one nack and
\* no ack when it raises.
C4_OneAckOrOneNack ==
    \A t \in Tasks :
        (ret[t].op = "deliver" /\ ret[t].handler # "none" /\ ~ret[t].noAck
            /\ ret[t].script = "none") =>
            /\ Len(ret[t].acks) = 1
            /\ ret[t].acks[1].by = "loop"
            /\ ret[t].handler = "return" => ret[t].acks[1].kind = "ack"
            /\ ret[t].handler = "raise" => ret[t].acks[1].kind = "nack"

\* C5: a connect() that rejects with the error of a step of the connect
\* sequence leaves the client Disconnected: no attempt in flight and
\* isConnected() false.
C5_FailedConnectEndsDisconnected ==
    \A t \in Tasks :
        (ret[t].op = "connect" /\ ret[t].v \in RunnerPcs) =>
            ~isConnecting /\ ~isConnected

\* C6: a connect() that waited for an attempt in flight settles after that
\* attempt is over, resolves iff that attempt ran its whole connect sequence
\* (its connection got the handlers), and otherwise rejects with
\* 'Connection failed'.
C6_WaiterSharesOutcome ==
    \A t \in Tasks :
        (ret[t].op = "connect" /\ ret[t].waited) =>
            /\ \A u \in Runners : tasks[u].c # ret[t].c
            /\ ret[t].v = "ok" <=> ret[t].c \in listening
            /\ ret[t].v # "ok" => ret[t].v = "Connection failed"

\* C7: an error or close event on a Connected client leaves both handles
\* null and the registry empty, and with the counter below reconnectAttempts
\* it adds one to the counter and one pending reconnect.
C7_DropClearsState ==
    [][ (isConnected /\ log' \cap EventLogs # {}) =>
            /\ connection' = 0
            /\ channel' = 0
            /\ activeConsumers' = EmptyRegistry
            /\ reconnectCount < reconnectAttempts =>
                  reconnectCount' = reconnectCount + 1 /\ timers' = timers + 1 ]_vars

\* The first event after a connect on which a subscription was registered.
C7_Witness ==
    /\ log \cap EventLogs # {}
    /\ connectCalls = 1
    /\ evSince = 1
    /\ subs # {}
    /\ timers = 1
    /\ activeConsumers = EmptyRegistry

\* A connect() has just failed: the catch block ran, a waiter was rejected,
\* or the timer's catch logged.
FailedConnect ==
    \/ "failed to connect" \in log
    \/ "reconnection attempt failed" \in log
    \/ \E t \in Tasks : ret[t].op = "connect" /\ ret[t].v \notin {"none", "ok"}

\* C8: a failed connect() changes neither the pending reconnects nor the
\* counter; they grow only in a step of an error/close handler.
C8_OnlyEventsSchedule ==
    [][ /\ FailedConnect' => timers' = timers /\ reconnectCount' = reconnectCount
        /\ (timers' > timers \/ reconnectCount' > reconnectCount) =>
              log' \cap EventLogs # {} ]_vars

\* The connect() of a reconnect timer has failed and nothing is pending.
C8_Witness ==
    /\ "reconnection attempt failed" \in log
    /\ reconnectCount >= 1
    /\ timers = 0

\* C9: the step that completes a connect sequence sets reconnectCount to
\* zero, and the counter never exceeds the events since that step, so the
\* whole budget is available again.
C9_SuccessResetsCounter ==
    [][ /\ "connected" \in log' => reconnectCount' = 0
        /\ reconnectCount' <= evSince' ]_vars

\* A second connection has been established after the first was dropped.
C9_Witness ==
    /\ "connected" \in log
    /\ Cardinality(listening) = 2
    /\ reconnectAttempts >= 1
    /\ reconnectCount = 0

\* C10: from the terminal log until a caller calls connect() (directly or
\* through publish / publishToQueue / consume) no connect attempt starts
\* and the client is not connected.
C10_ExhaustedStaysDisconnected ==
    [][ (exhausted /\ exhausted') =>
            connectCalls' = connectCalls /\ ~isConnected' ]_vars

\* C11: the client is in exactly one of Disconnected, Connecting, Connected:
\* isConnected() (both handles present) is never true while a connect
\* attempt is in flight.
C11_ExactlyOneState == ~(isConnecting /\ isConnected)

\* C12: a publishToQueue that found no channel makes at most one sendToQueue,
\* and only on the channel of a connection that went through the whole
\* connect sequence and after a queue declaration made with the configured
\* durability; a failed connect or declaration leaves it without a send.
C12_ConnectDeclareSend ==
    \A t \in Tasks :
        /\ (ret[t].op = "publishToQueue" /\ ret[t].implicit) =>
              /\ ret[t].writes <= 1
              /\ ret[t].writes = 1 =>
                    /\ ret[t].wch \in listening
                    /\ ret[t].declared = IF durable THEN "durable" ELSE "transient"
              /\ ret[t].v \in RunnerPcs \cup {"Connection failed", "assertQueue"} =>
                    ret[t].writes = 0
        /\ (tasks[t].op = "publishToQueue" /\ tasks[t].implicit
              /\ tasks[t].pc \in {"assertQueue", "drain"}) => tasks[t].c \in listening

\* C13: a publish / publishToQueue whose broker write raises rejects with
\* that error in the same step, after one write attempt, and the write
\* changes neither the handles, nor the pending reconnects, nor the counter
\* (which is 0 when the step is also the one that completed the connect).
C13_WriteErrorRethrown ==
    [][ \A t \in Tasks :
          (ret'[t].op \in {"publish", "publishToQueue"} /\ ret'[t].v = "write") =>
              /\ ret'[t].writes = 1
              /\ tasks'[t] = Idle
              /\ "publish failed" \in log'
              /\ connection' = connection
              /\ channel' = channel
              /\ timers' = timers
              /\ reconnectCount' =
                    IF "connected" \in log' THEN 0 ELSE reconnectCount ]_vars

\* The sendToQueue of a publishToQueue has raised on a connected client that
\* has used part of its reconnect budget.
C13_Witness ==
    \E t \in Tasks :
        /\ ret[t].op = "publishToQueue"
        /\ ret[t].v = "write"
        /\ isConnected
        /\ reconnectCount = 1
        /\ timers = 1

\* C14: publish calls issued on an established channel hand their messages
\* to it in call order: such a call makes its one write in the step that
\* issues it, so it is never in progress (not even while waiting for drain)
\* without having written, and a later call's write cannot overtake it.
C14_WritesInCallOrder ==
    \A t \in Tasks :
        /\ (tasks[t].op = "publish" /\ ~tasks[t].implicit) =>
              tasks[t].pc = "drain" /\ tasks[t].writes = 1
        /\ (ret[t].op = "publish" /\ ~ret[t].implicit) =>
              ret[t].writes = 1 /\ ret[t].wch # 0

\* A second publish has written on the channel on which an earlier one is
\* still waiting for drain.
C14_Witness ==
    \E t, u \in Tasks :
        /\ tasks[t].op = "publish"
        /\ ~tasks[t].implicit
        /\ tasks[t].pc = "drain"
        /\ ret[u].op = "publish"
        /\ ~ret[u].implicit
        /\ ret[u].v = "ok"
        /\ ~ret[u].drained
        /\ ret[u].wch = tasks[t].c

\* The bind calls consume() makes for these routing keys: one per key in
\* list order, or one with the empty key.
ExpectedBinds(keys) == IF keys = <<>> THEN <<"">> ELSE keys

\* C15: a consume() that succeeds has made exactly the expected bind calls;
\* at any moment the binds made so far are a prefix of them, none is made
\* before the queue declaration has resolved, and delivery is started only
\* after the last one.
C15_OneBindPerKey ==
    \A t \in Tasks :
        /\ (ret[t].op = "consume" /\ ret[t].v = "ok") =>
              ret[t].bound = ExpectedBinds(ret[t].keys)
        /\ ret[t].op = "consume" =>
              /\ Len(ret[t].bound) <= Len(ExpectedBinds(ret[t].keys))
              /\ ret[t].bound = SubSeq(ExpectedBinds(ret[t].keys), 1, Len(ret[t].bound))
        /\ tasks[t].op = "consume" =>
              /\ tasks[t].pc = "bind" =>
                    /\ tasks[t].i \in 1..Len(ExpectedBinds(tasks[t].keys))
                    /\ tasks[t].bound = SubSeq(ExpectedBinds(tasks[t].keys), 1, tasks[t].i)
              /\ tasks[t].pc = "consumeStart" =>
                    tasks[t].bound = ExpectedBinds(tasks[t].keys)
              /\ tasks[t].pc \notin {"bind", "consumeStart"} => tasks[t].bound = <<>>

\* A consume with two routing keys has started delivery.
C15_Witness ==
    \E t \in Tasks :
        /\ ret[t].op = "consume"
        /\ ret[t].v = "ok"
        /\ ret[t].keys = <<"k1", "k2">>
        /\ ret[t].bound = <<"k1", "k2">>

\* C16: when the queue declaration, a binding or the consume start of a
\* consume() fails, the call rejects with that step's error in the same
\* step, has made none of the later calls (no bind after a failed
\* declaration, only the binds before a failed one, no subscription), and
\* the registry is what it was.
C16_FailedConsumeLeavesRegistry ==
    [][ \A t \in Tasks :
          (ret'[t].op = "consume"
              /\ ret'[t].v \in {"assertQueue", "bind", "consumeStart"}) =>
              /\ tasks[t].pc = ret'[t].v
              /\ tasks'[t] = Idle
              /\ "consume failed" \in log'
              /\ ret'[t].bound = tasks[t].bound
              /\ ret'[t].v = "assertQueue" => ret'[t].bound = <<>>
              /\ ret'[t].tag = 0
              /\ subs' = subs
              /\ nextTag' = nextTag
              /\ activeConsumers' = activeConsumers ]_vars

\* On a queue that has a registry entry, the first of the two bindings of a
\* second consume has failed: the second binding was not made.
C16_Witness ==
    \E t \in Tasks :
        /\ ret[t].op = "consume"
        /\ ret[t].v = "bind"
        /\ ret[t].keys = <<"k1", "k2">>
        /\ ret[t].bound = <<"k1">>
        /\ activeConsumers[ret[t].q] # 0

\* C17: the registry has one entry per queue name; the step in which a
\* consume(q) succeeds maps q to the tag the broker returned for it (a new
\* one), leaves the other entries alone and cancels no subscription, also
\* when q already had an entry.
C17_RegistryKeepsLatestTag ==
    [][ /\ activeConsumers' \in [Queues -> 0..MaxRegistryTags]
        /\ \A t \in Tasks :
              (ret'[t].op = "consume" /\ ret'[t].v = "ok") =>
                  /\ ret'[t].tag \notin {s.tag : s \in subs} \cup {0}
                  /\ activeConsumers' =
                        [activeConsumers EXCEPT ![ret'[t].q] = ret'[t].tag]
                  /\ subs \subseteq subs'
                  /\ \E s \in subs' \ subs :
                        s.tag = ret'[t].tag /\ s.q = ret'[t].q ]_vars

\* A second consume for a queue has succeeded on the channel that carries
\* its first subscription: the entry holds the second tag, both
\* subscriptions exist.
C17_Witness ==
    \E t \in Tasks, s1, s2 \in subs :
        /\ ret[t].op = "consume"
        /\ ret[t].v = "ok"
        /\ ret[t].tag = 2
        /\ s1.tag = 1
        /\ s2.tag = 2
        /\ s1.q = s2.q
        /\ s1.ch = s2.ch
        /\ evSince = 0
        /\ connectCalls = 1
        /\ activeConsumers[s2.q] = 2

\* C18: with noAck = false a handler that has called ack() once, or nack()
\* once, and returns normally is followed by the automatic ack: the
\* delivery gets two acks, respectively one nack and then one ack.
C18_AutoAckAfterCallback ==
    \A t \in Tasks :
        (ret[t].op = "deliver" /\ ~ret[t].noAck /\ ret[t].script # "none"
            /\ ret[t].handler = "return") =>
            /\ Len(ret[t].acks) = 2
            /\ ret[t].acks[1].by = "handler"
            /\ ret[t].acks[1].kind = ret[t].script
            /\ ret[t].acks[2].by = "loop"
            /\ ret[t].acks[2].kind = "ack"

\* C19: for a delivery on a subscription started with noAck = true the
\* callback itself issues no ack and no nack and ends without an error,
\* whether the handler returned or raised.
C19_NoAckMeansNoAck ==
    \A t \in Tasks :
        (ret[t].op = "deliver" /\ ret[t].noAck) =>
            /\ \A k \in 1..Len(ret[t].acks) : ret[t].acks[k].by # "loop"
            /\ ret[t].handler \in {"return", "raise"} => ret[t].v = "ok"

\* The handler of a noAck delivery has raised.
C19_Witness ==
    \E t \in Tasks :
        /\ ret[t].op = "deliver"
        /\ ret[t].noAck
        /\ ret[t].handler = "raise"
        /\ ret[t].script = "none"
        /\ "error processing message" \in log
        /\ channel # 0

\* C20: a null delivery does not call the handler (no call is left in
\* progress), issues no ack and no nack, raises and logs nothing, and leaves
\* the registry, the subscriptions and the connection state as they were.
C20_NullDeliveryIgnored ==
    [][ \A t \in Tasks :
          (ret'[t].op = "deliver" /\ ret'[t].handler = "none") =>
              /\ tasks' = tasks
              /\ ret'[t].acks = <<>>
              /\ ret'[t].v = "ok"
              /\ log' = {}
              /\ activeConsumers' = activeConsumers
              /\ subs' = subs
              /\ <<connection, channel, isConnecting, reconnectCount, timers>>' =
                    <<connection, channel, isConnecting, reconnectCount, timers>> ]_vars

\* A null delivery has arrived on a registered subscription that expects
\* acknowledgments, while the handler of an earlier message is running.
C20_Witness ==
    \E t, u \in Tasks :
        /\ ret[t].op = "deliver"
        /\ ret[t].handler = "none"
        /\ ~ret[t].noAck
        /\ activeConsumers[ret[t].q] # 0
        /\ isConnected
        /\ tasks[u].pc = "handler"

\* C21: an exception raised by the message handler stays inside its
\* delivery: the delivery callback ends without an error of its own, and the
\* connection state and the registry are what they were, whatever happened
\* to the channel while the handler ran.
C21_HandlerErrorContained ==
    [][ \A t \in Tasks :
          (ret'[t].op = "deliver" /\ ret'[t].handler = "raise") =>
              /\ ret'[t].v = "ok"
              /\ activeConsumers' = activeConsumers
              /\ <<connection, channel, isConnecting, reconnectCount, timers>>' =
                    <<connection, channel, isConnecting, reconnectCount, timers>> ]_vars

\* C22: stopConsuming(q) for a queue without a registry entry issues no
\* cancel and returns at once without an error, and the registry, the
\* handles and the calls in progress are what they were.
C22_StopUnknownQueueIsNoOp ==
    [][ \A t \in Tasks :
          tasks[t].pc = "idle" =>
              /\ tasks'[t].op = "stopConsuming" => activeConsumers[tasks'[t].q] # 0
              /\ (ret'[t].op = "stopConsuming" /\ activeConsumers[ret'[t].q] = 0) =>
                    /\ ret'[t].v = "ok"
                    /\ ret'[t].cancels = <<>>
                    /\ tasks' = tasks
                    /\ activeConsumers' = activeConsumers
                    /\ <<connection, channel>>' = <<connection, channel>> ]_vars

\* stopConsuming has returned for a queue without an entry, on a connected
\* consumer whose registry holds another queue.
C22_Witness ==
    \E t \in Tasks :
        /\ ret[t].op = "stopConsuming"
        /\ ret[t].v = "ok"
        /\ activeConsumers[ret[t].q] = 0
        /\ activeConsumers # EmptyRegistry
        /\ isConnected
        /\ "no active consumer" \in log

\* C23: stopConsuming(q) for a registered queue, with a channel, issues one
\* cancel on that channel, for the tag registered under q, and when the
\* cancel succeeds stopConsuming resolves after removing the entry for q
\* and no other entry.
C23_StopCancelsAndRemovesEntry ==
    [][ \A t \in Tasks :
          /\ (tasks[t].pc = "idle" /\ tasks'[t].op = "stopConsuming") =>
                /\ channel # 0
                /\ tasks'[t].cancels = <<[tag |-> activeConsumers[tasks'[t].q],
                                          ch |-> channel, q |-> tasks'[t].q]>>
          /\ (ret'[t].op = "stopConsuming" /\ ret'[t].cancels # <<>>
                /\ ret'[t].v = "ok") =>
                /\ ret'[t].cancels = tasks[t].cancels
                /\ Len(ret'[t].cancels) = 1
                /\ activeConsumers' = [activeConsumers EXCEPT ![ret'[t].q] = 0] ]_vars

\* stopConsuming has resolved after its cancel, the entry of its queue is
\* gone and the entry of the other queue is still there.
C23_Witness ==
    \E t \in Tasks, q \in Queues :
        /\ ret[t].op = "stopConsuming"
        /\ ret[t].v = "ok"
        /\ Len(ret[t].cancels) = 1
        /\ activeConsumers[ret[t].q] = 0
        /\ q # ret[t].q
        /\ activeConsumers[q] # 0

\* C24 as stated: whenever stopConsuming(q) rejects because its cancel
\* failed, the registry holds the entry for q with the tag that was to be
\* cancelled.
C24_FailedStopKeepsEntry ==
    [][ \A t \in Tasks :
          (ret'[t].op = "stopConsuming" /\ ret'[t].v # "ok") =>
              /\ ret'[t].v = "cancel"
              /\ activeConsumers'[ret'[t].q] = tasks[t].tag ]_vars

\* C24, amended: when the cancel fails stopConsuming rejects with that
\* error and changes neither the registry nor the handles; what the
\* registry holds for q is what it held just before the failure.
C24_FailedStopChangesNothing ==
    [][ \A t \in Tasks :
          (ret'[t].op = "stopConsuming" /\ ret'[t].v # "ok") =>
              /\ ret'[t].v = "cancel"
              /\ tasks[t].pc = "cancel"
              /\ "failed to stop consuming" \in log'
              /\ activeConsumers' = activeConsumers
              /\ <<connection, channel>>' = <<connection, channel>> ]_vars

\* stopConsuming has rejected and the registry still holds the entry with
\* the tag whose cancel failed.
C24_Witness ==
    \E t \in Tasks :
        /\ ret[t].op = "stopConsuming"
        /\ ret[t].v = "cancel"
        /\ Len(ret[t].cancels) = 1
        /\ activeConsumers[ret[t].q] = ret[t].cancels[1].tag

\* C25: ack, nack and reject on a client without a channel (never
\* connected, closed or dropped) make no channel call and do not raise;
\* with a channel each makes exactly one call, on that channel:
\* ack(message, allUpTo) with allUpTo false unless given, nack(message,
\* false, requeue) with requeue true unless given, reject(message, requeue)
\* with requeue false unless given.
C25_AckNackRejectForward ==
    \A t \in Tasks :
        ret[t].op \in {"ack", "nack", "reject"} =>
            IF channel = 0
            THEN ret[t].calls = <<>> /\ ret[t].v = "ok"
            ELSE /\ Len(ret[t].calls) = 1
                 /\ ret[t].calls[1].method = ret[t].op
                 /\ ret[t].calls[1].ch = channel
                 /\ ret[t].op = "ack" =>
                       ret[t].calls[1].allUpTo = (ret[t].flag = "true")
                 /\ ret[t].op = "nack" =>
                       /\ ret[t].calls[1].requeue = (ret[t].flag # "false")
                       /\ ~ret[t].calls[1].allUpTo
                 /\ ret[t].op = "reject" =>
                       ret[t].calls[1].requeue = (ret[t].flag = "true")

\* nack(message) without its second argument has been forwarded on the
\* channel of a consumer that had lost a connection before.
C25_Witness ==
    \E t \in Tasks :
        /\ ret[t].op = "nack"
        /\ ret[t].flag = "omitted"
        /\ channel # 0
        /\ errored # {}
        /\ Len(ret[t].calls) = 1
        /\ ret[t].calls[1].requeue

\* C26: when the consumer's close() resolves, it has cancelled no queue
\* twice, has issued its cancels before closing the channel and has closed
\* the channel before the connection, and the registry is empty, both
\* handles are absent and isConnected() is false.
C26_CloseReleasesEverything ==
    [][ \A t \in Tasks :
          (role = "consumer" /\ ret'[t].op = "close" /\ ret'[t].v = "ok") =>
              /\ \A j, k \in 1..Len(ret'[t].cancels) :
                    ret'[t].cancels[j].q = ret'[t].cancels[k].q => j = k
              /\ \A k \in 1..Len(ret'[t].closes) :
                    ret'[t].closes[k].what = "channel" => k = 1
              /\ Len(ret'[t].closes) <= 2
              /\ activeConsumers' = EmptyRegistry
              /\ connection' = 0
              /\ channel' = 0
              /\ ~isConnected' ]_vars

\* C27 as stated: when close() rejects, the error is that of the step that
\* failed, no later step has been taken, and every handle whose close has
\* not completed is present.
C27_FailedCloseKeepsHandles ==
    [][ \A t \in Tasks :
          (ret'[t].op = "close" /\ ret'[t].v # "ok") =>
              /\ ret'[t].v = tasks[t].pc
              /\ ret'[t].v = "cancel" =>
                    ret'[t].closes = <<>> /\ channel' # 0
              /\ ret'[t].v = "channelClose" =>
                    Len(ret'[t].closes) = 1 /\ channel' # 0
              /\ ret'[t].v = "connectionClose" => connection' # 0 ]_vars

\* C27, amended: when a step of close() fails, close() rejects with the
\* error of that step after logging it, has taken no later step, and
\* changes neither handle nor the registry: a handle whose close has not
\* completed is what it was just before the failure.
C27_FailedCloseChangesNothing ==
    [][ \A t \in Tasks :
          (ret'[t].op = "close" /\ ret'[t].v # "ok") =>
              /\ ret'[t].v = tasks[t].pc
              /\ ret'[t].v \in {"cancel", "channelClose", "connectionClose"}
              /\ "error closing" \in log'
              /\ ret'[t].cancels = tasks[t].cancels
              /\ ret'[t].closes = tasks[t].closes
              /\ ret'[t].v = "cancel" => ret'[t].closes = <<>>
              /\ ret'[t].v = "channelClose" =>
                    /\ Len(ret'[t].closes) = 1
                    /\ ret'[t].closes[1].what = "channel"
              /\ ret'[t].v = "connectionClose" =>
                    ret'[t].closes[Len(ret'[t].closes)].what = "connection"
              /\ <<connection, channel, activeConsumers>>' =
                    <<connection, channel, activeConsumers>> ]_vars

\* close() has rejected because closing the channel failed, and both
\* handles are still present.
C27_Witness ==
    \E t \in Tasks :
        /\ ret[t].op = "close"
        /\ ret[t].v = "channelClose"
        /\ channel # 0
        /\ connection # 0
        /\ channel = ret[t].closes[1].c

\* C28: connect() on a client that is Connected (both handles present, no
\* attempt in progress) starts nothing and resolves at once: no transport
\* is opened, no call is left in progress, and the handles, the reconnect
\* counter, the registry and the subscriptions are what they were.
C28_ConnectWhenConnectedIsNoOp ==
    [][ \A t \in Tasks :
          (tasks[t].pc = "idle" /\ isConnected /\ ~isConnecting) =>
              /\ tasks'[t].op # "connect"
              /\ ret'[t].op = "connect" =>
                    /\ ret'[t].v = "ok"
                    /\ "already connected" \in log'
                    /\ connectCalls' = connectCalls
                    /\ tasks' = tasks
                    /\ subs' = subs
                    /\ <<connection, channel, isConnecting, reconnectCount,
                         activeConsumers, timers, listening>>' =
                          <<connection, channel, isConnecting, reconnectCount,
                            activeConsumers, timers, listening>> ]_vars

\* connect() has returned at once on a connected consumer that holds a
\* subscription.
C28_Witness ==
    \E t \in Tasks :
        /\ ret[t].op = "connect"
        /\ ret[t].v = "ok"
        /\ "already connected" \in log
        /\ isConnected
        /\ ~isConnecting
        /\ activeConsumers # EmptyRegistry

C30_StartOnceStopSafe ==
    [][ /\ httpApp'.servers <= 1
        /\ httpApp'.server # 0 => httpApp'.servers = 1
        /\ (httpApp'.op = "start" /\ httpApp.server # 0 /\ httpApp' # httpApp) =>
              /\ httpApp'.log = {"already running"}
              /\ httpApp' = [httpApp EXCEPT !.op = "start", !.v = "ok",
                                            !.log = {"already running"}]
        /\ (httpApp'.op = "stop" /\ httpApp.server = 0 /\ httpApp' # httpApp) =>
              /\ httpApp'.log = {"not running"}
              /\ httpApp' = [httpApp EXCEPT !.op = "stop", !.v = "ok",
                                            !.log = {"not running"}] ]_vars

\* start() has warned on an app that was started before and never stopped:
\* serve was called once.
C30_Witness ==
    /\ httpApp.op = "start"
    /\ httpApp.log = {"already running"}
    /\ httpApp.server # 0
    /\ httpApp.serveCalls = 1
    /\ httpApp.servers = 1
    /\ httpApp.closeCalls = 0

\* C31: an error or close event of a connection object that is not the
\* client's current connection (a later connect replaced it, or close()
\* closed it) leaves the handles, the registry, the reconnect counter and
\* the pending reconnects as they were.
C31_StaleEventIgnored ==
    [][ \A c \in Conns :
          ( /\ c \in (errored' \ errored) \cup (closed' \ closed)
            /\ c # connection
            /\ connection # 0 \/ c \in shutConns ) =>
              /\ connection' = connection
              /\ channel' = channel
              /\ activeConsumers' = activeConsumers
              /\ timers' = timers
              /\ reconnectCount' = reconnectCount ]_vars

\* A caller's call has started in this step.
CallerCalls ==
    \E t \in Tasks :
        /\ tasks[t].pc = "idle"
        /\ \/ tasks'[t].op \in {"connect", "publish", "publishToQueue", "consume"}
           \/ ret'[t].op \in {"connect", "publish", "publishToQueue", "consume"}

\* C32: the step that follows a close() that has resolved, unless it is a
\* caller's connect(), publish, publishToQueue or consume, starts no
\* connect attempt and leaves the client disconnected; a reconnect timer
\* armed before the close does not call amqp.connect.
C32_ClosedStaysClosed ==
    [][ ((\E t \in Tasks : ret[t].op = "close" /\ ret[t].v = "ok") /\ ~CallerCalls) =>
            /\ connectCalls' = connectCalls
            /\ ~isConnected' ]_vars

\* C33: every ack or nack issued for a delivery, by the delivery callback
\* or by the handler through its ack / nack closures, is issued on the
\* channel that delivered the message.
C33_AckOnDeliveringChannel ==
    \A t \in Tasks :
        /\ tasks[t].op = "deliver" =>
              \A k \in 1..Len(tasks[t].acks) : tasks[t].acks[k].ch = tasks[t].c
        /\ ret[t].op = "deliver" =>
              \A k \in 1..Len(ret[t].acks) : ret[t].acks[k].ch = ret[t].c

\* C34: the close event of a connection that has already reported its drop
\* with an error event adds nothing to the reconnect counter and arms no
\* further reconnect, and at most one reconnect is pending at any time.
C34_OneEpisodePerDrop ==
    [][ /\ timers' <= 1
        /\ \A c \in Conns :
              (c \in errored /\ c \in closed' \ closed) =>
                  /\ reconnectCount' = reconnectCount
                  /\ timers' = timers ]_vars

\* C35: every broker operation of publish, publishToQueue and consume (a
\* message write, a queue declaration, a binding, a consume start) is made
\* on a channel whose connect sequence has completed: the exchange is
\* declared and the connection carries the error / close handlers.
C35_NoOperationBeforeConnected ==
    \A t \in Tasks :
        /\ ret[t].wch # 0 => ret[t].wch \in listening
        /\ tasks[t].pc \in {"assertQueue", "bind", "consumeStart", "drain"} =>
              tasks[t].c \in listening

\* C36: a connection leaves this.connection only when the client has closed
\* it or it has reported an error or close event, so that every connection
\* the client has opened is its current handle, closed, or reported gone.
C36_NoConnectionLeak ==
    [][ (connection # 0 /\ connection' # connection) =>
            connection \in errored' \cup closed' \cup shutConns' ]_vars

\* C37: whenever the consumer's registry holds an entry, this.channel is
\* present and the tag of the entry was issued by that channel.
C37_RegistryOnCurrentChannel ==
    \A q \in Queues :
        (role = "consumer" /\ activeConsumers[q] # 0) =>
            /\ channel # 0
            /\ \E s \in subs : s.tag = activeConsumers[q] /\ s.ch = channel

\* C38: a publish or publishToQueue suspended on a full buffer is
\* eventually resumed, also when the connection is dropped before the
\* channel emits 'drain'.
C38_SuspendedWriteCompletes ==
    \A t \in Tasks : (tasks[t].pc = "drain") ~> (tasks[t].pc # "drain")

\* C39: the reconnect counter is never negative and never exceeds
\* reconnectAttempts, and it equals the number of reconnects scheduled
\* since the last successful connect.
C39_CounterWithinBudget ==
    /\ 0 <= reconnectCount
    /\ reconnectCount <= reconnectAttempts
    /\ schedSince = reconnectCount

\* The whole budget of two reconnects has been used since the last
\* successful connect, and a further event has found it exhausted.
C39_Witness ==
    /\ reconnectAttempts = 2
    /\ reconnectCount = 2
    /\ schedSince = 2
    /\ listening # {}
    /\ "max reconnection attempts reached" \in log

\* C40: after a stop() that has closed the running server, the next call
\* of start() calls serve again, and the next call of stop() closes nothing
\* and warns that the server is not running.
C40_StoppedAppRestarts ==
    [][ (httpApp.op = "stop" /\ httpApp.log = {} /\ httpApp' # httpApp) =>
            /\ httpApp'.op = "start" =>
                  httpApp'.serveCalls = httpApp.serveCalls + 1
            /\ httpApp'.op = "stop" =>
                  /\ httpApp'.closeCalls = httpApp.closeCalls
                  /\ httpApp'.log = {"not running"} ]_vars

====
